---- MODULE Spec2Model ----
(***************************************************************************)
(* diverDriver: a broker that serializes access to one proof-of-work       *)
(* engine.  The module models the IPC codec (ipccommon), the server's      *)
(* per-connection handler with its resumable frame parser (ipcserver), the *)
(* engine gateway powFunc with its mutex, and the client's PowFunc wrapper. *)
(***************************************************************************)
EXTENDS Integers, Sequences, FiniteSets, TLC

(***************************************************************************)
(* Bounds of the model.                                                    *)
(***************************************************************************)
\* sessions (accepted connections) served concurrently
NumSessions == 2
\* socket reads over all sessions of the concurrent specification
MaxReads == 2
\* socket reads of the single-session specification
MaxSessionReads == 2
\* length of the data field drawn for the codec round trip
MaxDataLen == 2
\* length of the garbage that precedes a frame on the stream
MaxGarbage == 2
\* calls the client makes (its request ids run up to this)
MaxClientCalls == 2
\* length of the one long data field of the codec round trip (above 255)
LongDataLen == 258
\* length of the bytes handed to the decoder directly
MaxRawLen == 5
\* goroutines that share one DiverClient
NumCallers == 3
\* calls they make on it, all together
MaxIdCalls == 4
\* length of the endpoint strings handed to Initialize
MaxUrlLen == 7
\* ticks of the clock between a call and the start of its receive
MaxStartTicks == 1

(***************************************************************************)
(* Wire constants.                                                         *)
(***************************************************************************)
IpcCmdNotification == 1
IpcCmdResponse == 2
IpcCmdError == 3
IpcCmdGetServerVersion == 4
IpcCmdGetPowType == 5
IpcCmdGetPowVersion == 6
IpcCmdPowFunc == 7

FrameStateSearchEnq == 1
FrameStateSearchVersion == 2
FrameStateSearchLength == 3
FrameStateSearchData == 4
FrameStateSearchCRC == 5

\* the start byte and the frame version NewIpcMessageV1 writes and the parser expects
StartByte == 5
FrameVersion == 1
\* largest data length NewIpcMessageV1 accepts (0xFFFF)
MaxMessageData == 65535
\* the client wrapper's upper limit of minWeightMagnitude
MaxClientMwm == 243
\* default of pow.maxMinWeightMagnitude
DefaultMaxMwm == 14

Byte == 0..255

(***************************************************************************)
(* Bit operations on bytes.                                                *)
(***************************************************************************)
RECURSIVE Xor(_, _)
Xor(a, b) ==
    IF a = 0 THEN b
    ELSE IF b = 0 THEN a
    ELSE (((a % 2) + (b % 2)) % 2) + 2 * Xor(a \div 2, b \div 2)

\* one step of the reflected CRC-8/MAXIM shift register (polynomial 0x31, reflected 0x8C)
CrcShift(c) == IF c % 2 = 1 THEN Xor(c \div 2, 140) ELSE c \div 2

\* crc8.MakeTable(crc8.CRC8_MAXIM): the table entry of every byte
Crc8Table == [n \in Byte |-> CrcShift(CrcShift(CrcShift(CrcShift(CrcShift(CrcShift(CrcShift(CrcShift(n))))))))]

\* crc8.Update over the bytes lo..hi of data, in order (split in halves, the
\* left half evaluated first, to keep the evaluation shallow)
RECURSIVE CrcUpdate(_, _, _, _)
CrcUpdate(crc, data, lo, hi) ==
    IF lo > hi THEN crc
    ELSE IF lo = hi THEN Crc8Table[Xor(crc, data[lo])]
    ELSE LET mid == (lo + hi) \div 2
             left == CrcUpdate(crc, data, lo, mid)
         IN  IF left \in Byte THEN CrcUpdate(left, data, mid + 1, hi) ELSE left

\* crc8.Checksum(data, Crc8Table): init 0x00, xorout 0x00
Checksum(data) == CrcUpdate(0, data, 1, Len(data))


(***************************************************************************)
(* Codec (package ipccommon).  struc packs a `uint16,sizeof=F` field as    *)
(* the length of F, big-endian, truncated to 16 bits, whatever the struct  *)
(* field holds.                                                            *)
(***************************************************************************)
U16Hi(n) == (n % 65536) \div 256
U16Lo(n) == n % 256

\* FrameToBytes with the length packed low octet first
FrameToBytesLittleEndian(f) ==
    <<f.ReqID, f.Command, U16Lo(Len(f.Data)), U16Hi(Len(f.Data))>> \o f.Data

\* IpcFrameV1.ToBytes: ReqID, Command, DataLength (sizeof=Data), Data
FrameToBytes(f) ==
    <<f.ReqID, f.Command, U16Hi(Len(f.Data)), U16Lo(Len(f.Data))>> \o f.Data

\* NewIpcMessageV1: refuses data longer than 0xFFFF, else wraps the packed
\* frame with start byte, version, length and CRC-8 of the packed frame
NewIpcMessageV1(requestID, command, data) ==
    IF Len(data) > MaxMessageData
    THEN [err |-> "Message is too big"]
    ELSE LET frameBytes == FrameToBytes([ReqID |-> requestID, Command |-> command,
                                         DataLength |-> Len(data), Data |-> data])
         IN  [err |-> "", StartByte |-> StartByte, FrameVersion |-> FrameVersion,
              FrameLength |-> Len(data), FrameData |-> frameBytes,
              CRC8 |-> Checksum(frameBytes)]

\* IpcMessage.ToBytes: StartByte, FrameVersion, FrameLength (sizeof=FrameData),
\* FrameData, CRC8
MessageToBytes(m) ==
    <<m.StartByte, m.FrameVersion, U16Hi(Len(m.FrameData)), U16Lo(Len(m.FrameData))>>
        \o m.FrameData \o <<m.CRC8>>

\* BytesToIpcFrameV1 with the first two fields unpacked in the wrong order
BytesToIpcFrameV1Swapped(data) ==
    IF Len(data) < 4
    THEN [err |-> IF Len(data) = 3 THEN "unexpected EOF" ELSE "EOF"]
    ELSE LET n == (data[3] * 256) + data[4]
         IN  IF Len(data) - 4 < n
             THEN [err |-> IF Len(data) = 4 THEN "EOF" ELSE "unexpected EOF"]
             ELSE [err |-> "", ReqID |-> data[2], Command |-> data[1],
                   DataLength |-> n, Data |-> SubSeq(data, 5, 4 + n)]

\* BytesToIpcFrameV1: struc.Unpack reads ReqID, Command, DataLength and then
\* DataLength bytes of Data with io.ReadFull; it fails only when the input
\* runs out, and leaves bytes after Data unread
BytesToIpcFrameV1(data) ==
    IF Len(data) < 4
    THEN [err |-> IF Len(data) = 3 THEN "unexpected EOF" ELSE "EOF"]
    ELSE LET n == (data[3] * 256) + data[4]
         IN  IF Len(data) - 4 < n
             THEN [err |-> IF Len(data) = 4 THEN "EOF" ELSE "unexpected EOF"]
             ELSE [err |-> "", ReqID |-> data[1], Command |-> data[2],
                   DataLength |-> n, Data |-> SubSeq(data, 5, 4 + n)]


(***************************************************************************)
(* Session handler (HandleClientConnection).  A handler's locals are a     *)
(* record h: pc (where the goroutine is), frameState, frameLength,         *)
(* frameData (kept across reads), buf and bufferIdx (the current read),    *)
(* reqID, mwm, trytes (the DoWork request in progress), result (what       *)
(* powFunc returned) and log (what the handler did, in order: frames       *)
(* dispatched, replies written, engine invocations, panics).  Reply data is kept as a format   *)
(* with its arguments; the text of an error is not expanded into bytes.    *)
(***************************************************************************)
Raw(bytes) == [fmt |-> "", args |-> bytes]
Text(fmt, args) == [fmt |-> fmt, args |-> args]

\* giota.ToTrytes accepts exactly the bytes of the alphabet 9, A..Z
IsTryte(b) == b = 57 \/ (b >= 65 /\ b <= 90)
ValidTrytes(t) == \A i \in 1..Len(t) : IsTryte(t[i])

\* common.DiverDriverVersion, "0.2.0"
DiverDriverVersion == <<48, 46, 50, 46, 48>>
\* the engine descriptor strings handed to the handler: "PiDiver" and "1"
PowType == <<80, 105, 68, 105, 118, 101, 114>>
PowVersion == <<49>>

\* sendToClient: the message is packed and written; the handler drops the
\* error c.Write returns.  wok says whether the write succeeds.
SendToClient(h, wok, reqID, command, data) ==
    [h EXCEPT !.log = Append(@, [ev |-> "write", ok |-> wok, ReqID |-> reqID,
                                 Command |-> command, Data |-> data])]

\* SearchEnq that does not initialise the variables for the new message
SearchEnqNoReset(h, b) ==
    IF b = StartByte
    THEN [h EXCEPT !.frameState = FrameStateSearchVersion]
    ELSE h

\* SearchEnq that clears the frame length but keeps the payload of the
\* frame before
SearchEnqKeepPayload(h, b) ==
    IF b = StartByte
    THEN [h EXCEPT !.frameLength = -1, !.frameState = FrameStateSearchVersion]
    ELSE h

\* case FrameStateSearchEnq
SearchEnq(h, b) ==
    IF b = StartByte
    THEN [h EXCEPT !.frameLength = -1, !.frameData = <<>>,
                   !.frameState = FrameStateSearchVersion]
    ELSE h

\* SearchVersion that, on a byte that is not the version, falls back and
\* looks at the same byte again as a start byte
SearchVersionReexamine(h, b) ==
    IF b = FrameVersion
    THEN [h EXCEPT !.frameState = FrameStateSearchLength]
    ELSE [h EXCEPT !.frameState = FrameStateSearchEnq, !.bufferIdx = @ - 1]

\* case FrameStateSearchVersion
SearchVersion(h, b) ==
    IF b = FrameVersion
    THEN [h EXCEPT !.frameState = FrameStateSearchLength]
    ELSE [h EXCEPT !.frameState = FrameStateSearchEnq]

\* case FrameStateSearchLength: frameLength |= b equals frameLength + b, the
\* low octet being clear after the shift
SearchLength(h, b) ==
    IF h.frameLength = -1
    THEN [h EXCEPT !.frameLength = b * 256]
    ELSE [h EXCEPT !.frameLength = @ + b, !.frameState = FrameStateSearchData]

\* SearchData that, when the frame is not complete in this read, keeps only
\* the bytes of this read
SearchDataOverwrite(h) ==
    LET missingByteCount == h.frameLength - Len(h.frameData)
        bufLength == Len(h.buf)
    IN  IF bufLength - h.bufferIdx >= missingByteCount
        THEN [h EXCEPT !.frameData = @ \o SubSeq(h.buf, h.bufferIdx + 1,
                                                 h.bufferIdx + missingByteCount),
                       !.bufferIdx = @ + missingByteCount - 1,
                       !.frameState = FrameStateSearchCRC]
        ELSE [h EXCEPT !.frameData = SubSeq(h.buf, h.bufferIdx + 1, bufLength),
                       !.bufferIdx = bufLength]

\* SearchData that takes a start byte in the data as the start of a new frame
SearchDataRestart(h) ==
    LET missingByteCount == h.frameLength - Len(h.frameData)
        bufLength == Len(h.buf)
    IN  IF h.buf[h.bufferIdx + 1] = StartByte
        THEN [h EXCEPT !.frameLength = -1, !.frameData = <<>>,
                       !.frameState = FrameStateSearchVersion]
        ELSE IF bufLength - h.bufferIdx >= missingByteCount
        THEN [h EXCEPT !.frameData = @ \o SubSeq(h.buf, h.bufferIdx + 1,
                                                 h.bufferIdx + missingByteCount),
                       !.bufferIdx = @ + missingByteCount - 1,
                       !.frameState = FrameStateSearchCRC]
        ELSE [h EXCEPT !.frameData = @ \o SubSeq(h.buf, h.bufferIdx + 1, bufLength),
                       !.bufferIdx = bufLength]

\* case FrameStateSearchData
SearchData(h) ==
    LET missingByteCount == h.frameLength - Len(h.frameData)
        bufLength == Len(h.buf)
    IN  IF bufLength - h.bufferIdx >= missingByteCount
        THEN [h EXCEPT !.frameData = @ \o SubSeq(h.buf, h.bufferIdx + 1,
                                                 h.bufferIdx + missingByteCount),
                       !.bufferIdx = @ + missingByteCount - 1,
                       !.frameState = FrameStateSearchCRC]
        ELSE [h EXCEPT !.frameData = @ \o SubSeq(h.buf, h.bufferIdx + 1, bufLength),
                       !.bufferIdx = bufLength]

\* DispatchPowFunc with the difficulty gate off by one (>= for >)
DispatchPowFuncOffByOne(h, wok, maxMwm, frame) ==
    IF Len(frame.Data) = 0
    THEN [h EXCEPT !.pc = "panic", !.log = Append(@, [ev |-> "panic", ReqID |-> frame.ReqID])]
    ELSE LET mwm == frame.Data[1]
             input == SubSeq(frame.Data, 2, Len(frame.Data))
         IN  IF mwm >= maxMwm
             THEN [SendToClient(h, wok, frame.ReqID, IpcCmdError,
                       Text("MinWeightMagnitude too high. MWM: %v Allowed: %v", <<mwm, maxMwm>>))
                   EXCEPT !.frameState = FrameStateSearchEnq]
             ELSE IF ~ValidTrytes(input)
             THEN [SendToClient(h, wok, frame.ReqID, IpcCmdError, Text("invalid trytes", <<>>))
                   EXCEPT !.frameState = FrameStateSearchEnq]
             ELSE [h EXCEPT !.pc = "lock", !.reqID = frame.ReqID, !.mwm = mwm,
                            !.trytes = input]

\* DispatchPowFunc that hands the input to powFunc without the alphabet check
DispatchPowFuncNoAlphabetCheck(h, wok, maxMwm, frame) ==
    IF Len(frame.Data) = 0
    THEN [h EXCEPT !.pc = "panic", !.log = Append(@, [ev |-> "panic", ReqID |-> frame.ReqID])]
    ELSE LET mwm == frame.Data[1]
             input == SubSeq(frame.Data, 2, Len(frame.Data))
         IN  IF mwm > maxMwm
             THEN [SendToClient(h, wok, frame.ReqID, IpcCmdError,
                       Text("MinWeightMagnitude too high. MWM: %v Allowed: %v", <<mwm, maxMwm>>))
                   EXCEPT !.frameState = FrameStateSearchEnq]
             ELSE [h EXCEPT !.pc = "lock", !.reqID = frame.ReqID, !.mwm = mwm,
                            !.trytes = input]

\* case IpcCmdPowFunc, up to the call of powFunc: frame.Data[0] panics on
\* empty data; the difficulty gate; the alphabet check
DispatchPowFunc(h, wok, maxMwm, frame) ==
    IF Len(frame.Data) = 0
    THEN [h EXCEPT !.pc = "panic", !.log = Append(@, [ev |-> "panic", ReqID |-> frame.ReqID])]
    ELSE LET mwm == frame.Data[1]
             input == SubSeq(frame.Data, 2, Len(frame.Data))
         IN  IF mwm > maxMwm
             THEN [SendToClient(h, wok, frame.ReqID, IpcCmdError,
                       Text("MinWeightMagnitude too high. MWM: %v Allowed: %v", <<mwm, maxMwm>>))
                   EXCEPT !.frameState = FrameStateSearchEnq]
             ELSE IF ~ValidTrytes(input)
             THEN [SendToClient(h, wok, frame.ReqID, IpcCmdError, Text("invalid trytes", <<>>))
                   EXCEPT !.frameState = FrameStateSearchEnq]
             ELSE [h EXCEPT !.pc = "lock", !.reqID = frame.ReqID, !.mwm = mwm,
                            !.trytes = input]

\* Dispatch that sends GetServerVersion through powFunc as well
DispatchAllThroughPowFunc(h, wok, maxMwm, frame) ==
    LET d == [h EXCEPT !.log = Append(@, [ev |-> "dispatch", payload |-> h.frameData,
                                          ReqID |-> frame.ReqID,
                                          Command |-> frame.Command])]
    IN  IF frame.Command = IpcCmdGetServerVersion
        THEN [d EXCEPT !.pc = "lock", !.reqID = frame.ReqID, !.mwm = 0, !.trytes = <<>>]
        ELSE IF frame.Command = IpcCmdGetPowType
        THEN [SendToClient(d, wok, frame.ReqID, IpcCmdResponse, Raw(PowType))
              EXCEPT !.frameState = FrameStateSearchEnq]
        ELSE IF frame.Command = IpcCmdGetPowVersion
        THEN [SendToClient(d, wok, frame.ReqID, IpcCmdResponse, Raw(PowVersion))
              EXCEPT !.frameState = FrameStateSearchEnq]
        ELSE IF frame.Command = IpcCmdPowFunc
        THEN DispatchPowFunc(d, wok, maxMwm, frame)
        ELSE [SendToClient(d, wok, frame.ReqID, IpcCmdError,
                  Text("Unknown command! Cmd: %X", <<frame.Command>>))
              EXCEPT !.frameState = FrameStateSearchEnq]

\* Dispatch that drops a Notification without a reply
DispatchNotificationDropped(h, wok, maxMwm, frame) ==
    LET d == [h EXCEPT !.log = Append(@, [ev |-> "dispatch", payload |-> h.frameData,
                                          ReqID |-> frame.ReqID,
                                          Command |-> frame.Command])]
    IN  IF frame.Command = IpcCmdGetServerVersion
        THEN [SendToClient(d, wok, frame.ReqID, IpcCmdResponse, Raw(DiverDriverVersion))
              EXCEPT !.frameState = FrameStateSearchEnq]
        ELSE IF frame.Command = IpcCmdGetPowType
        THEN [SendToClient(d, wok, frame.ReqID, IpcCmdResponse, Raw(PowType))
              EXCEPT !.frameState = FrameStateSearchEnq]
        ELSE IF frame.Command = IpcCmdGetPowVersion
        THEN [SendToClient(d, wok, frame.ReqID, IpcCmdResponse, Raw(PowVersion))
              EXCEPT !.frameState = FrameStateSearchEnq]
        ELSE IF frame.Command = IpcCmdPowFunc
        THEN DispatchPowFunc(d, wok, maxMwm, frame)
        ELSE IF frame.Command = IpcCmdNotification
        THEN [d EXCEPT !.frameState = FrameStateSearchEnq]
        ELSE [SendToClient(d, wok, frame.ReqID, IpcCmdError,
                  Text("Unknown command! Cmd: %X", <<frame.Command>>))
              EXCEPT !.frameState = FrameStateSearchEnq]

\* switch frame.Command, and the assignment that follows it
Dispatch(h, wok, maxMwm, frame) ==
    LET d == [h EXCEPT !.log = Append(@, [ev |-> "dispatch", payload |-> h.frameData,
                                          ReqID |-> frame.ReqID,
                                          Command |-> frame.Command])]
    IN  IF frame.Command = IpcCmdGetServerVersion
        THEN [SendToClient(d, wok, frame.ReqID, IpcCmdResponse, Raw(DiverDriverVersion))
              EXCEPT !.frameState = FrameStateSearchEnq]
        ELSE IF frame.Command = IpcCmdGetPowType
        THEN [SendToClient(d, wok, frame.ReqID, IpcCmdResponse, Raw(PowType))
              EXCEPT !.frameState = FrameStateSearchEnq]
        ELSE IF frame.Command = IpcCmdGetPowVersion
        THEN [SendToClient(d, wok, frame.ReqID, IpcCmdResponse, Raw(PowVersion))
              EXCEPT !.frameState = FrameStateSearchEnq]
        ELSE IF frame.Command = IpcCmdPowFunc
        THEN DispatchPowFunc(d, wok, maxMwm, frame)
        ELSE [SendToClient(d, wok, frame.ReqID, IpcCmdError,
                  Text("Unknown command! Cmd: %X", <<frame.Command>>))
              EXCEPT !.frameState = FrameStateSearchEnq]

\* SearchCRC that answers an undecodable payload under the payload's first byte
SearchCRCFirstByte(h, b, wok, maxMwm) ==
    LET frame == BytesToIpcFrameV1(h.frameData)
        crc == Checksum(h.frameData)
    IN  IF frame.err # ""
        THEN [SendToClient(h, wok, IF Len(h.frameData) > 0 THEN h.frameData[1] ELSE 0,
                           IpcCmdError, Text(frame.err, <<>>))
              EXCEPT !.frameState = FrameStateSearchEnq]
        ELSE IF b # crc
        THEN [SendToClient(h, wok, frame.ReqID, IpcCmdError,
                  Text("Wrong Checksum! CRC: %X, Expected: %X", <<crc, b>>))
              EXCEPT !.frameState = FrameStateSearchEnq]
        ELSE Dispatch(h, wok, maxMwm, frame)

\* case FrameStateSearchCRC: decode the payload, compare the checksum, dispatch
SearchCRC(h, b, wok, maxMwm) ==
    LET frame == BytesToIpcFrameV1(h.frameData)
        crc == Checksum(h.frameData)
    IN  IF frame.err # ""
        THEN [SendToClient(h, wok, 0, IpcCmdError, Text(frame.err, <<>>))
              EXCEPT !.frameState = FrameStateSearchEnq]
        ELSE IF b # crc
        THEN [SendToClient(h, wok, frame.ReqID, IpcCmdError,
                  Text("Wrong Checksum! CRC: %X, Expected: %X", <<crc, b>>))
              EXCEPT !.frameState = FrameStateSearchEnq]
        ELSE Dispatch(h, wok, maxMwm, frame)

\* switch frameState, on the byte buf[bufferIdx]
ParseByte(h, wok, maxMwm) ==
    LET b == h.buf[h.bufferIdx + 1]
    IN  IF h.frameState = FrameStateSearchEnq THEN SearchEnq(h, b)
        ELSE IF h.frameState = FrameStateSearchVersion THEN SearchVersion(h, b)
        ELSE IF h.frameState = FrameStateSearchLength THEN SearchLength(h, b)
        ELSE IF h.frameState = FrameStateSearchData THEN SearchData(h)
        ELSE SearchCRC(h, b, wok, maxMwm)

\* the inner for loop: it runs until the buffer is handled (back to c.Read),
\* the handler enters powFunc, or it panics
RECURSIVE HandleBuffer(_, _, _)
HandleBuffer(h, wok, maxMwm) ==
    LET n == [h EXCEPT !.bufferIdx = @ + 1]
    IN  IF Len(n.buf) > n.bufferIdx
        THEN LET p == ParseByte(n, wok, maxMwm)
             IN  IF p.pc \in {"lock", "panic"} THEN p ELSE HandleBuffer(p, wok, maxMwm)
        ELSE [n EXCEPT !.pc = "read", !.buf = <<>>, !.bufferIdx = -1]

\* a result of one byte more than a message takes
TooLongResult == [i \in 1..(MaxMessageData + 1) |-> 57]

\* the bytes of what powFunc returned
ResultBytes(r) == IF r.long THEN TooLongResult ELSE r.trytes

\* AfterPowFunc that handles the rest of the buffer before it writes the reply
AfterPowFuncReplyLast(h, wok, maxMwm) ==
    LET rest == HandleBuffer([h EXCEPT !.frameState = FrameStateSearchEnq, !.pc = "run",
                                       !.reqID = 0, !.mwm = 0, !.trytes = <<>>,
                                       !.result = [err |-> "", trytes |-> <<>>, long |-> FALSE]],
                             wok, maxMwm)
    IN  SendToClient(rest, wok, h.reqID, IpcCmdResponse, Raw(h.result.trytes))

\* what follows the return of powFunc: the reply (none when the result is too
\* long for a message), then the rest of the buffer
AfterPowFunc(h, wok, maxMwm) ==
    LET msg == NewIpcMessageV1(h.reqID, IpcCmdResponse, ResultBytes(h.result))
        r == IF h.result.err # ""
             THEN SendToClient(h, wok, h.reqID, IpcCmdError, Text(h.result.err, <<>>))
             ELSE IF msg.err # ""
             THEN [h EXCEPT !.log = Append(@, [ev |-> "noreply", ReqID |-> h.reqID])]
             ELSE SendToClient(h, wok, h.reqID, IpcCmdResponse, Raw(h.result.trytes))
    IN  HandleBuffer([r EXCEPT !.frameState = FrameStateSearchEnq, !.pc = "run",
                               !.reqID = 0, !.mwm = 0, !.trytes = <<>>,
                               !.result = [err |-> "", trytes |-> <<>>, long |-> FALSE]],
                     wok, maxMwm)

\* the locals at the start of HandleClientConnection, blocked in the first c.Read
NewHandler ==
    [pc |-> "read", frameState |-> FrameStateSearchEnq, frameLength |-> 0,
     frameData |-> <<>>, buf |-> <<>>, bufferIdx |-> -1, reqID |-> 0, mwm |-> 0,
     trytes |-> <<>>, result |-> [err |-> "", trytes |-> <<>>, long |-> FALSE], log |-> <<>>]


(***************************************************************************)
(* Requests, as the client's encoder produces them, and the chunks of      *)
(* bytes a socket read may deliver.                                        *)
(***************************************************************************)
Req(id, command, data) == MessageToBytes(NewIpcMessageV1(id, command, data))

\* the frame with its CRC byte corrupted (lowest bit flipped)
CorruptCrc(f) == [f EXCEPT ![Len(f)] = Xor(@, 1)]

ReqDoWork == Req(1, IpcCmdPowFunc, <<DefaultMaxMwm, 65>>)
ReqDoWorkHigh == Req(2, IpcCmdPowFunc, <<DefaultMaxMwm + 1, 65>>)
ReqDoWorkBadTrytes == Req(3, IpcCmdPowFunc, <<5, 97>>)
ReqDoWorkEmpty == Req(13, IpcCmdPowFunc, <<>>)
ReqGetServerVersion == Req(7, IpcCmdGetServerVersion, <<>>)
ReqGetPowType == Req(42, IpcCmdGetPowType, <<>>)
ReqGetPowVersion == Req(43, IpcCmdGetPowVersion, <<>>)
ReqUnknown == Req(9, IpcCmdResponse, <<>>)
FrameBadCrc == CorruptCrc(Req(11, IpcCmdGetServerVersion, <<>>))
\* a frame whose payload is too short for the inner header
FrameShortPayload == <<5, 1, 0, 2, 12, 4, Checksum(<<12, 4>>)>>
\* a frame whose payload declares more data than it carries
FrameLongDataLength == <<5, 1, 0, 5, 12, 4, 0, 3, 65, Checksum(<<12, 4, 0, 3, 65>>)>>

ConcChunks == {ReqDoWork, ReqDoWorkHigh, ReqGetServerVersion}

SessionChunks ==
    ConcChunks \cup
    {ReqDoWorkBadTrytes, ReqDoWorkEmpty, ReqGetPowType, ReqGetPowVersion, ReqUnknown,
     FrameBadCrc, FrameShortPayload, FrameLongDataLength,
     ReqDoWork \o ReqGetServerVersion,
     SubSeq(ReqDoWork, 1, 6), SubSeq(ReqDoWork, 7, Len(ReqDoWork)),
     <<5, 2>>}

\* what the engine may return: a nonce, an error, or (long) trytes too many
\* for one message, which the state does not spell out
EngineResults ==
    {[err |-> "", trytes |-> <<57, 65>>, long |-> FALSE],
     [err |-> "pow failed", trytes |-> <<>>, long |-> FALSE],
     [err |-> "", trytes |-> <<>>, long |-> TRUE]}

(***************************************************************************)
(* State.                                                                  *)
(***************************************************************************)
VARIABLES
    sess,        \* the locals of each session's handler goroutine
    conn,        \* each connection: "open", or "peerclosed" once the client closed it
    powMutex,    \* 0 when unlocked, else the session that holds it
    powFuncPtr,  \* whether SetPowFunc has set the engine slot
    inflight,    \* engine invocations in flight (counted around the engine call)
    calls,       \* engine invocations started
    maxMwm,      \* pow.maxMinWeightMagnitude
    reads,       \* socket reads done
    crashed,     \* the process died of a panic
    garbage,     \* the bytes a client wrote before its frame
    stream,      \* everything that client wrote: the garbage, then the frame
    delivered,   \* how many bytes of stream the socket has delivered
    cx,          \* a codec round trip: the triple, the message, the decoded frame
    cl           \* the client: its DiverClient and the call it is in

streamVars == <<garbage, stream, delivered>>
vars == <<sess, conn, powMutex, powFuncPtr, inflight, calls, maxMwm, reads, crashed,
          garbage, stream, delivered, cx, cl>>

Sessions == 1..NumSessions

\* the server after SetPowFunc (or without it), with its connections accepted
InitServer ==
    /\ sess = [s \in Sessions |-> NewHandler]
    /\ conn = [s \in Sessions |-> "open"]
    /\ powMutex = 0
    /\ powFuncPtr \in BOOLEAN
    /\ inflight = 0
    /\ calls = 0
    /\ maxMwm = DefaultMaxMwm
    /\ reads = 0
    /\ crashed = FALSE

\* no codec round trip
NoCodec == [pc |-> "none"]

\* no client call
NoClient == [pc |-> "none"]

Init ==
    /\ InitServer
    /\ garbage = <<>>
    /\ stream = <<>>
    /\ delivered = 0
    /\ cx = NoCodec
    /\ cl = NoClient

\* whether a write on the session's socket succeeds
WriteOk(s) == conn[s] = "open"

\* the handler works through the chunk a c.Read returned
Handle(s, chunk) ==
    /\ ~crashed
    /\ sess[s].pc = "read"
    /\ LET h == HandleBuffer([sess[s] EXCEPT !.buf = chunk, !.bufferIdx = -1, !.pc = "run"],
                             WriteOk(s), maxMwm)
       IN  /\ sess' = [sess EXCEPT ![s] = h]
           /\ crashed' = (h.pc = "panic")
    /\ reads' = reads + 1
    /\ UNCHANGED <<conn, powMutex, powFuncPtr, inflight, calls, maxMwm, cx, cl>>

\* c.Read returns a chunk
Read(s, chunk, bound) ==
    /\ reads < bound
    /\ Handle(s, chunk)
    /\ UNCHANGED streamVars

\* c.Read returns the next n bytes of what the client wrote
ReadStream(s, n) ==
    /\ delivered + n <= Len(stream)
    /\ Handle(s, SubSeq(stream, delivered + 1, delivered + n))
    /\ delivered' = delivered + n
    /\ UNCHANGED <<garbage, stream>>

\* ReadErr that goes on to the next c.Read instead of leaving the loop
ReadErrContinue(s) ==
    /\ ~crashed
    /\ sess[s].pc = "read"
    /\ conn[s] = "peerclosed"
    /\ sess' = [sess EXCEPT ![s].pc = "read"]
    /\ UNCHANGED <<conn, powMutex, powFuncPtr, inflight, calls, maxMwm, reads, crashed, streamVars, cx, cl>>

\* c.Read returns an error: the loop is left and the deferred c.Close runs
ReadErr(s) ==
    /\ ~crashed
    /\ sess[s].pc = "read"
    /\ conn[s] = "peerclosed"
    /\ sess' = [sess EXCEPT ![s].pc = "closed"]
    /\ UNCHANGED <<conn, powMutex, powFuncPtr, inflight, calls, maxMwm, reads, crashed, streamVars, cx, cl>>

\* the client closes its end of the connection
PeerClose(s) ==
    /\ ~crashed
    /\ conn[s] = "open"
    /\ sess[s].pc # "closed"
    /\ conn' = [conn EXCEPT ![s] = "peerclosed"]
    /\ UNCHANGED <<sess, powMutex, powFuncPtr, inflight, calls, maxMwm, reads, crashed, streamVars, cx, cl>>

\* PowLock that does not wait for the mutex to be free
PowLockNoWait(s) ==
    /\ ~crashed
    /\ sess[s].pc = "lock"
    /\ powMutex' = s
    /\ sess' = [sess EXCEPT ![s].pc = "locked"]
    /\ UNCHANGED <<conn, powFuncPtr, inflight, calls, maxMwm, reads, crashed, streamVars, cx, cl>>

\* powFunc: powMutex.Lock()
PowLock(s) ==
    /\ ~crashed
    /\ sess[s].pc = "lock"
    /\ powMutex = 0
    /\ powMutex' = s
    /\ sess' = [sess EXCEPT ![s].pc = "locked"]
    /\ UNCHANGED <<conn, powFuncPtr, inflight, calls, maxMwm, reads, crashed, streamVars, cx, cl>>

\* powFunc: the nil check, then the call of the engine
PowCall(s) ==
    /\ ~crashed
    /\ sess[s].pc = "locked"
    /\ IF powFuncPtr
       THEN /\ sess' = [sess EXCEPT ![s].pc = "engine",
                                    ![s].log = Append(@, [ev |-> "engine",
                                                          mwm |-> sess[s].mwm,
                                                          trytes |-> sess[s].trytes,
                                                          reads |-> reads])]
            /\ inflight' = inflight + 1
            /\ calls' = calls + 1
       ELSE /\ sess' = [sess EXCEPT ![s].pc = "unlock",
                                    ![s].result = [err |-> "powFunc not initialized",
                                                   trytes |-> <<>>, long |-> FALSE]]
            /\ UNCHANGED <<inflight, calls>>
    /\ UNCHANGED <<conn, powMutex, powFuncPtr, maxMwm, reads, crashed, streamVars, cx, cl>>

\* PowReturn after which powFunc invokes the engine again when it failed
PowReturnRetry(s, r) ==
    /\ ~crashed
    /\ sess[s].pc = "engine"
    /\ sess' = IF r.err # "" /\ calls < 2
               THEN [sess EXCEPT ![s].pc = "locked"]
               ELSE [sess EXCEPT ![s].pc = "unlock", ![s].result = r]
    /\ inflight' = inflight - 1
    /\ UNCHANGED <<conn, powMutex, powFuncPtr, calls, maxMwm, reads, crashed, streamVars, cx, cl>>

\* the engine returns
PowReturn(s, r) ==
    /\ ~crashed
    /\ sess[s].pc = "engine"
    /\ sess' = [sess EXCEPT ![s].pc = "unlock", ![s].result = r]
    /\ inflight' = inflight - 1
    /\ UNCHANGED <<conn, powMutex, powFuncPtr, calls, maxMwm, reads, crashed, streamVars, cx, cl>>

\* PowUnlock that releases the mutex only when the engine succeeded
PowUnlockOnSuccess(s) ==
    /\ ~crashed
    /\ sess[s].pc = "unlock"
    /\ powMutex' = IF sess[s].result.err = "" THEN 0 ELSE powMutex
    /\ sess' = [sess EXCEPT ![s].pc = "reply"]
    /\ UNCHANGED <<conn, powFuncPtr, inflight, calls, maxMwm, reads, crashed, streamVars, cx, cl>>

\* PowUnlock that leaves the mutex to be released after the reply
PowUnlockSkipped(s) ==
    /\ ~crashed
    /\ sess[s].pc = "unlock"
    /\ powMutex' = powMutex
    /\ sess' = [sess EXCEPT ![s].pc = "reply"]
    /\ UNCHANGED <<conn, powFuncPtr, inflight, calls, maxMwm, reads, crashed, streamVars, cx, cl>>

\* powFunc: the deferred powMutex.Unlock(), on every return
PowUnlock(s) ==
    /\ ~crashed
    /\ sess[s].pc = "unlock"
    /\ powMutex' = 0
    /\ sess' = [sess EXCEPT ![s].pc = "reply"]
    /\ UNCHANGED <<conn, powFuncPtr, inflight, calls, maxMwm, reads, crashed, streamVars, cx, cl>>

\* back in the handler: the reply to the DoWork, then the rest of the buffer
PowReply(s) ==
    /\ ~crashed
    /\ sess[s].pc = "reply"
    /\ LET h == AfterPowFunc(sess[s], WriteOk(s), maxMwm)
       IN  /\ sess' = [sess EXCEPT ![s] = h]
           /\ crashed' = (h.pc = "panic")
    /\ UNCHANGED <<conn, powMutex, powFuncPtr, inflight, calls, maxMwm, reads, streamVars, cx, cl>>

Next ==
    \E s \in Sessions :
        \/ \E chunk \in ConcChunks : Read(s, chunk, MaxReads)
        \/ ReadErr(s)
        \/ PeerClose(s)
        \/ PowLock(s)
        \/ PowCall(s)
        \/ \E r \in EngineResults : PowReturn(s, r)
        \/ PowUnlock(s)
        \/ PowReply(s)

Spec == Init /\ [][Next]_vars


(***************************************************************************)
(* One session, fed every kind of chunk.                                   *)
(***************************************************************************)
NextSession ==
    \/ \E chunk \in SessionChunks : Read(1, chunk, MaxSessionReads)
    \/ ReadErr(1)
    \/ PeerClose(1)
    \/ PowLock(1)
    \/ PowCall(1)
    \/ \E r \in EngineResults : PowReturn(1, r)
    \/ PowUnlock(1)
    \/ PowReply(1)

SpecSession == Init /\ [][NextSession]_vars


(***************************************************************************)
(* One session reading, in chunks of any sizes, what one client wrote:     *)
(* garbage, then one valid frame.                                          *)
(***************************************************************************)
GarbageBytes == {0, 1, 5}

RECURSIVE SeqsUpTo(_, _)
SeqsUpTo(S, n) ==
    IF n = 0 THEN {<<>>}
    ELSE LET shorter == SeqsUpTo(S, n - 1)
         IN  shorter \cup {Append(q, x) : q \in shorter, x \in S}

\* a request whose payload holds the start byte and the version byte
ReqGetPowType5 == Req(5, IpcCmdGetPowType, <<>>)
ReqDoWork1 == Req(5, IpcCmdPowFunc, <<1, 65>>)

ValidFrames == {ReqGetServerVersion, ReqGetPowType5, ReqDoWork1, ReqUnknown}

InitChunk ==
    /\ InitServer
    /\ garbage \in SeqsUpTo(GarbageBytes, MaxGarbage)
    /\ \E f \in ValidFrames : stream = garbage \o f
    /\ delivered = 0
    /\ cx = NoCodec
    /\ cl = NoClient

NextChunk ==
    \/ \E n \in 1..Len(stream) : ReadStream(1, n)
    \/ PowLock(1)
    \/ PowCall(1)
    \/ \E r \in EngineResults : PowReturn(1, r)
    \/ PowUnlock(1)
    \/ PowReply(1)

SpecChunk == InitChunk /\ [][NextChunk]_vars

\* bytes that are not the frame version
BogusVersions == {0, 2, 5, 255}

\* the peer sends a start byte, a byte that is not the version, and then a
\* valid frame
InitBogusStart ==
    /\ InitServer
    /\ \E x \in BogusVersions : garbage = <<StartByte, x>>
    /\ \E f \in ValidFrames : stream = garbage \o f
    /\ delivered = 0
    /\ cx = NoCodec
    /\ cl = NoClient

SpecBogusStart == InitBogusStart /\ [][NextChunk]_vars

(***************************************************************************)
(* One session reading a frame the handler refuses, then a valid frame.    *)
(* The refused frame is kept in the variable garbage.                      *)
(***************************************************************************)
\* frames with a well-formed payload and a corrupted CRC byte
BadCrcFrames ==
    {CorruptCrc(Req(0, IpcCmdGetServerVersion, <<>>)), FrameBadCrc, CorruptCrc(ReqDoWork)}

\* a frame without payload
FrameNoPayload == <<5, 1, 0, 0, Checksum(<<>>)>>

\* frames whose payload is no version-1 inner message, with a right or a
\* wrong CRC byte
UndecodableFrames ==
    {FrameShortPayload, FrameLongDataLength, FrameNoPayload,
     CorruptCrc(FrameShortPayload), CorruptCrc(FrameLongDataLength)}

InitFaulty ==
    /\ InitServer
    /\ garbage \in BadCrcFrames \cup UndecodableFrames
    /\ \E f \in ValidFrames : stream = garbage \o f
    /\ delivered = 0
    /\ cx = NoCodec
    /\ cl = NoClient

SpecFaulty == InitFaulty /\ [][NextChunk]_vars

(***************************************************************************)
(* One session reading two frames that the client wrote back to back.      *)
(***************************************************************************)
FirstFrames == {ReqDoWork, ReqDoWorkHigh, ReqGetPowType, ReqUnknown, FrameBadCrc}
SecondFrames == {ReqGetServerVersion, ReqDoWork1, ReqGetPowVersion}

InitPipeline ==
    /\ InitServer
    /\ garbage = <<>>
    /\ \E f \in FirstFrames, g \in SecondFrames : stream = f \o g
    /\ delivered = 0
    /\ cx = NoCodec
    /\ cl = NoClient

SpecPipeline == InitPipeline /\ [][NextChunk]_vars


(***************************************************************************)
(* One session that receives one frame with any command byte.              *)
(***************************************************************************)
CommandData == {<<>>, <<DefaultMaxMwm, 65>>}

InitCommands ==
    /\ InitServer
    /\ garbage = <<>>
    /\ \E command \in Byte, data \in CommandData : stream = Req(9, command, data)
    /\ delivered = 0
    /\ cx = NoCodec
    /\ cl = NoClient

SpecCommands == InitCommands /\ [][NextChunk]_vars


(***************************************************************************)
(* One session that receives a valid frame, or the frame with one bit of   *)
(* its serialized payload flipped; cx keeps the frame as it was built.     *)
(***************************************************************************)
FlipBit(f, i, k) == [f EXCEPT ![i] = Xor(@, 2 ^ k)]

\* the positions of the payload (req_id, command, data_length, data) in a frame
PayloadPositions(f) == 5..(Len(f) - 1)

InitFlip ==
    /\ InitServer
    /\ garbage = <<>>
    /\ \E f \in ValidFrames :
          /\ cx = [pc |-> "flip", original |-> f]
          /\ \/ stream = f
             \/ \E i \in PayloadPositions(f), k \in 0..7 : stream = FlipBit(f, i, k)
    /\ delivered = 0
    /\ cl = NoClient

SpecFlip == InitFlip /\ [][NextChunk]_vars


(***************************************************************************)
(* One session of a server started with some pow.maxMinWeightMagnitude,    *)
(* which receives one DoWork.                                              *)
(***************************************************************************)
\* values the flag, the environment or the config file may give
ConfigMaxMwms == {DefaultMaxMwm, MaxClientMwm, 255}

\* difficulty bytes of the DoWork
RequestMwms == {DefaultMaxMwm, MaxClientMwm, MaxClientMwm + 1, 255}

InitConfig ==
    /\ sess = [s \in Sessions |-> NewHandler]
    /\ conn = [s \in Sessions |-> "open"]
    /\ powMutex = 0
    /\ powFuncPtr \in BOOLEAN
    /\ inflight = 0
    /\ calls = 0
    /\ maxMwm \in ConfigMaxMwms
    /\ reads = 0
    /\ crashed = FALSE
    /\ garbage = <<>>
    /\ \E mwm \in RequestMwms : stream = Req(1, IpcCmdPowFunc, <<mwm, 65>>)
    /\ delivered = 0
    /\ cx = NoCodec
    /\ cl = NoClient

SpecConfig == InitConfig /\ [][NextChunk]_vars

(***************************************************************************)
(* The codec round trip: a triple is encoded, the payload decoded.         *)
(***************************************************************************)
CodecReqIDs == {0, 5, 255}
CodecCommands == {IpcCmdResponse, IpcCmdPowFunc}
CodecBytes == {0, 5, 255}
\* data lengths around the largest the encoder takes
HugeLens == {MaxMessageData - 4, MaxMessageData - 3, MaxMessageData, MaxMessageData + 1}
Zeros(n) == [i \in 1..n |-> 0]
\* bytes handed to the decoder directly
RawBytes == {0, 1, 2}
\* data whose length needs both octets of the length field
LongData == [i \in 1..LongDataLen |-> i % 256]

InitCodec ==
    /\ InitServer
    /\ garbage = <<>>
    /\ stream = <<>>
    /\ delivered = 0
    /\ cl = NoClient
    /\ \/ \E id \in CodecReqIDs, c \in CodecCommands,
             d \in SeqsUpTo(CodecBytes, MaxDataLen) \cup {LongData} :
              cx = [pc |-> "new", ReqID |-> id, Command |-> c, Data |-> d]
       \/ \E n \in HugeLens :
              cx = [pc |-> "huge", ReqID |-> 0, Command |-> IpcCmdResponse, DataLen |-> n]
       \/ \E b \in SeqsUpTo(RawBytes, MaxRawLen) :
              cx = [pc |-> "raw", bytes |-> b]

\* NewIpcMessageV1 on the triple
Encode ==
    /\ cx.pc = "new"
    /\ cx' = [pc |-> "encoded", ReqID |-> cx.ReqID, Command |-> cx.Command, Data |-> cx.Data,
              msg |-> NewIpcMessageV1(cx.ReqID, cx.Command, cx.Data)]
    /\ UNCHANGED <<sess, conn, powMutex, powFuncPtr, inflight, calls, maxMwm, reads, crashed,
                   streamVars, cl>>

\* BytesToIpcFrameV1 on the payload of the message
Decode ==
    /\ cx.pc = "encoded"
    /\ cx.msg.err = ""
    /\ cx' = [pc |-> "decoded", ReqID |-> cx.ReqID, Command |-> cx.Command, Data |-> cx.Data,
              msg |-> cx.msg, frame |-> BytesToIpcFrameV1(cx.msg.FrameData)]
    /\ UNCHANGED <<sess, conn, powMutex, powFuncPtr, inflight, calls, maxMwm, reads, crashed,
                   streamVars, cl>>

\* the 16-bit length field of the serialized message
WireFrameLength(m) ==
    LET bytes == MessageToBytes(m)
    IN  (bytes[3] * 256) + bytes[4]

\* NewIpcMessageV1 and IpcMessage.ToBytes on data of DataLen zero bytes; of
\* the outcome the error, the length of the payload and the length field of
\* the serialized message are kept
EncodeHuge ==
    /\ cx.pc = "huge"
    /\ LET m == NewIpcMessageV1(cx.ReqID, cx.Command, Zeros(cx.DataLen))
       IN  cx' = [pc |-> "measured", DataLen |-> cx.DataLen, err |-> m.err,
                  payloadLen |-> IF m.err = "" THEN Len(m.FrameData) ELSE 0,
                  wireLen |-> IF m.err = "" THEN WireFrameLength(m) ELSE 0]
    /\ UNCHANGED <<sess, conn, powMutex, powFuncPtr, inflight, calls, maxMwm, reads, crashed,
                   streamVars, cl>>

\* BytesToIpcFrameV1 on bytes that no encoder produced
DecodeRaw ==
    /\ cx.pc = "raw"
    /\ cx' = [pc |-> "unpacked", bytes |-> cx.bytes, frame |-> BytesToIpcFrameV1(cx.bytes)]
    /\ UNCHANGED <<sess, conn, powMutex, powFuncPtr, inflight, calls, maxMwm, reads, crashed,
                   streamVars, cl>>

NextCodec == Encode \/ Decode \/ EncodeHuge \/ DecodeRaw

SpecCodec == InitCodec /\ [][NextCodec]_vars

(***************************************************************************)
(* The client: one DiverClient making calls over the socket, one at a      *)
(* time.  The peer's bytes are chosen when the request is written and      *)
(* delivered in reads of any sizes.                                        *)
(***************************************************************************)
ClientMwms == {-1, 0, 14, MaxClientMwm, MaxClientMwm + 1}
ClientTrytes == <<65>>
ClientTimeOuts == {0, 100}

NoError == [fmt |-> "", args |-> <<>>]

\* a DiverClient before its first call
NewClient(readTimeOutMs) ==
    [pc |-> "idle", RequestId |-> 0, ReadTimeOutMs |-> readTimeOutMs,
     mwm |-> 0, reqID |-> 0, request |-> <<>>, dialed |-> FALSE, sent |-> <<>>,
     wire |-> <<>>, got |-> 0,
     frameState |-> FrameStateSearchEnq, frameLength |-> 0, frameData |-> <<>>,
     buf |-> <<>>, bufferIdx |-> -1,
     received |-> FALSE, sres |-> [response |-> <<>>, err |-> NoError],
     response |-> <<>>, err |-> NoError]

\* what the peer may answer to the request with this id
Replies(reqID) ==
    { MessageToBytes(NewIpcMessageV1(reqID, IpcCmdResponse, <<57, 65>>)),
      MessageToBytes(NewIpcMessageV1(reqID, IpcCmdResponse, <<97>>)),
      MessageToBytes(NewIpcMessageV1(reqID, IpcCmdError, <<101>>)),
      MessageToBytes(NewIpcMessageV1(reqID, IpcCmdError, <<101, 37>>)),
      MessageToBytes(NewIpcMessageV1((reqID + 1) % 256, IpcCmdResponse, <<57>>)),
      MessageToBytes(NewIpcMessageV1(reqID, IpcCmdPowFunc, <<>>)),
      CorruptCrc(MessageToBytes(NewIpcMessageV1(reqID, IpcCmdResponse, <<57>>))),
      <<StartByte, FrameVersion, 0, 2, reqID, 0>> }

\* the return of a call with an error
Fail(c, e) == [c EXCEPT !.pc = "done", !.response = <<>>, !.err = e]

\* sendIpcFrameV1ToServer up to the dial: the next request id, the message
SendIpcFrameV1ToServer(c, command, data) ==
    LET reqID == (c.RequestId + 1) % 256
        requestMsg == NewIpcMessageV1(reqID, command, data)
        c1 == [c EXCEPT !.RequestId = reqID, !.reqID = reqID]
    IN  IF requestMsg.err # ""
        THEN Fail(c1, Text(requestMsg.err, <<>>))
        ELSE [c1 EXCEPT !.pc = "dial", !.request = MessageToBytes(requestMsg)]

\* doPow: the difficulty byte, then the trytes
DoPow(c, trytes, minWeightMagnitude) ==
    SendIpcFrameV1ToServer(c, IpcCmdPowFunc, <<minWeightMagnitude % 256>> \o trytes)

\* PowFunc that refuses the largest difficulty as well
PowFuncOffByOne(c, trytes, minWeightMagnitude) ==
    IF minWeightMagnitude < 0 \/ minWeightMagnitude >= MaxClientMwm
    THEN Fail(c, Text("minWeightMagnitude out of range [0-243]: %v", <<minWeightMagnitude>>))
    ELSE DoPow(c, trytes, minWeightMagnitude)

\* PowFunc: the range check, then doPow
PowFunc(c, trytes, minWeightMagnitude) ==
    IF minWeightMagnitude < 0 \/ minWeightMagnitude > MaxClientMwm
    THEN Fail(c, Text("minWeightMagnitude out of range [0-243]: %v", <<minWeightMagnitude>>))
    ELSE DoPow(c, trytes, minWeightMagnitude)

\* the texts fmt puts where a format is broken
NoVerb == <<37, 33, 40, 78, 79, 86, 69, 82, 66, 41>>
Missing == <<40, 77, 73, 83, 83, 73, 78, 71, 41>>

\* fmt.Errorf(format) without operands, for formats in which a percent sign
\* is followed by a letter, by a percent sign or by nothing: bytes are
\* copied, %% gives %, %x gives %!x(MISSING), a final % gives %!(NOVERB)
RECURSIVE ErrorfFrom(_, _)
ErrorfFrom(format, i) ==
    IF i > Len(format) THEN <<>>
    ELSE IF format[i] # 37 THEN <<format[i]>> \o ErrorfFrom(format, i + 1)
    ELSE IF i = Len(format) THEN NoVerb
    ELSE IF format[i + 1] = 37 THEN <<37>> \o ErrorfFrom(format, i + 2)
    ELSE <<37, 33, format[i + 1]>> \o Missing \o ErrorfFrom(format, i + 2)

Errorf(format) == ErrorfFrom(format, 1)

\* EvaluateFrame without the comparison of the req_ids
EvaluateFrameAnyReqID(c, resp) ==
    LET frame == BytesToIpcFrameV1(resp)
    IN  IF frame.err # "" THEN [response |-> <<>>, err |-> Text(frame.err, <<>>)]
        ELSE IF frame.Command = IpcCmdResponse
        THEN [response |-> frame.Data, err |-> NoError]
        ELSE IF frame.Command = IpcCmdError
        THEN [response |-> <<>>, err |-> Raw(Errorf(frame.Data))]
        ELSE [response |-> <<>>, err |-> Text("Unknown command! Cmd: %X", <<frame.Command>>)]

\* the rest of sendIpcFrameV1ToServer, on the frame receive returned: what
\* it returns to its caller
EvaluateFrame(c, resp) ==
    LET frame == BytesToIpcFrameV1(resp)
    IN  IF frame.err # "" THEN [response |-> <<>>, err |-> Text(frame.err, <<>>)]
        ELSE IF frame.ReqID # c.reqID
        THEN [response |-> <<>>,
              err |-> Text("Wrong ReqID! ReqID: %X, Expected: %X", <<frame.ReqID, c.reqID>>)]
        ELSE IF frame.Command = IpcCmdResponse
        THEN [response |-> frame.Data, err |-> NoError]
        ELSE IF frame.Command = IpcCmdError
        THEN [response |-> <<>>, err |-> Raw(Errorf(frame.Data))]
        ELSE [response |-> <<>>, err |-> Text("Unknown command! Cmd: %X", <<frame.Command>>)]

\* the rest of sendIpcFrameV1ToServer and of doPow, on the frame receive
\* returned
Evaluate(c, resp) ==
    LET r == EvaluateFrame(c, resp)
        c1 == [c EXCEPT !.received = TRUE, !.sres = r]
    IN  IF r.err # NoError THEN Fail(c1, r.err)
        ELSE IF ValidTrytes(r.response)
        THEN [c1 EXCEPT !.pc = "done", !.response = r.response, !.err = NoError]
        ELSE Fail(c1, Text("invalid trytes", <<>>))

\* receive, case FrameStateSearchCRC: it returns on either outcome
ReceiveCRC(c, b) ==
    LET crc == Checksum(c.frameData)
    IN  IF b # crc
        THEN Fail(c, Text("Wrong Checksum! CRC: %X, Expected: %X", <<crc, b>>))
        ELSE Evaluate(c, c.frameData)

\* receive, case FrameStateSearchEnq
ReceiveEnq(c, b) ==
    IF b = 5
    THEN [c EXCEPT !.frameLength = -1, !.frameData = <<>>,
                   !.frameState = FrameStateSearchVersion]
    ELSE c

\* receive, case FrameStateSearchVersion
ReceiveVersion(c, b) ==
    IF b = 1
    THEN [c EXCEPT !.frameState = FrameStateSearchLength]
    ELSE [c EXCEPT !.frameState = FrameStateSearchEnq]

\* receive, case FrameStateSearchLength
ReceiveLength(c, b) ==
    IF c.frameLength = -1
    THEN [c EXCEPT !.frameLength = b * 256]
    ELSE [c EXCEPT !.frameLength = @ + b, !.frameState = FrameStateSearchData]

\* receive, case FrameStateSearchData
ReceiveData(c) ==
    LET missingByteCount == c.frameLength - Len(c.frameData)
        bufLength == Len(c.buf)
    IN  IF bufLength - c.bufferIdx >= missingByteCount
        THEN [c EXCEPT !.frameData = @ \o SubSeq(c.buf, c.bufferIdx + 1,
                                                 c.bufferIdx + missingByteCount),
                       !.bufferIdx = @ + missingByteCount - 1,
                       !.frameState = FrameStateSearchCRC]
        ELSE [c EXCEPT !.frameData = @ \o SubSeq(c.buf, c.bufferIdx + 1, bufLength),
                       !.bufferIdx = bufLength]

\* receive, switch frameState, on the byte buf[bufferIdx]
ReceiveByte(c) ==
    LET b == c.buf[c.bufferIdx + 1]
    IN  CASE c.frameState = FrameStateSearchEnq -> ReceiveEnq(c, b)
          [] c.frameState = FrameStateSearchVersion -> ReceiveVersion(c, b)
          [] c.frameState = FrameStateSearchLength -> ReceiveLength(c, b)
          [] c.frameState = FrameStateSearchData -> ReceiveData(c)
          [] OTHER -> ReceiveCRC(c, b)

\* receive, the inner loop over one buffer
RECURSIVE ReceiveBuffer(_)
ReceiveBuffer(c) ==
    IF c.pc # "recv" THEN c
    ELSE LET c1 == [c EXCEPT !.bufferIdx = @ + 1]
         IN  IF Len(c1.buf) > c1.bufferIdx
             THEN ReceiveBuffer(ReceiveByte(c1))
             ELSE [c1 EXCEPT !.buf = <<>>, !.bufferIdx = -1]

InitClient ==
    /\ InitServer
    /\ garbage = <<>>
    /\ stream = <<>>
    /\ delivered = 0
    /\ cx = NoCodec
    /\ \E t \in ClientTimeOuts : cl = NewClient(t)

serverVars == <<sess, conn, powMutex, powFuncPtr, inflight, calls, maxMwm, reads, crashed>>

\* the application calls PowFunc
ClientPowFunc(mwm) ==
    /\ cl.pc = "idle"
    /\ cl.RequestId < MaxClientCalls
    /\ cl' = PowFunc([cl EXCEPT !.mwm = mwm, !.request = <<>>, !.dialed = FALSE,
                                !.sent = <<>>, !.response = <<>>, !.err = NoError,
                                !.received = FALSE,
                                !.sres = [response |-> <<>>, err |-> NoError]],
                     ClientTrytes, mwm)
    /\ UNCHANGED <<serverVars, streamVars, cx>>

\* sendToServer: net.Dial
ClientDial(ok) ==
    /\ cl.pc = "dial"
    /\ cl' = IF ok THEN [cl EXCEPT !.pc = "write", !.dialed = TRUE]
             ELSE Fail(cl, Text("dial", <<>>))
    /\ UNCHANGED <<serverVars, streamVars, cx>>

\* sendToServer: c.Write, then receive starts with a fresh parser
ClientWrite(ok, reply) ==
    /\ cl.pc = "write"
    /\ cl' = IF ok
             THEN [cl EXCEPT !.pc = "recv", !.sent = cl.request, !.wire = reply, !.got = 0,
                             !.frameState = FrameStateSearchEnq, !.frameLength = 0,
                             !.frameData = <<>>, !.buf = <<>>, !.bufferIdx = -1]
             ELSE Fail(cl, Text("write", <<>>))
    /\ UNCHANGED <<serverVars, streamVars, cx>>

\* receive: the time since the start of receive is above the timeout
ClientTimeout ==
    /\ cl.pc = "recv"
    /\ cl' = Fail(cl, Text("Receive timeout", <<>>))
    /\ UNCHANGED <<serverVars, streamVars, cx>>

\* receive: a read that returns the next n bytes of the peer.  The time
\* since the start of receive is positive, so a timeout of 0 is always over.
ClientRead(n) ==
    /\ cl.pc = "recv"
    /\ cl.ReadTimeOutMs > 0
    /\ cl.got + n <= Len(cl.wire)
    /\ cl' = ReceiveBuffer([cl EXCEPT !.buf = SubSeq(cl.wire, cl.got + 1, cl.got + n),
                                      !.bufferIdx = -1, !.got = @ + n])
    /\ UNCHANGED <<serverVars, streamVars, cx>>

\* the call has returned to the application
ClientReturn ==
    /\ cl.pc = "done"
    /\ cl' = [cl EXCEPT !.pc = "idle"]
    /\ UNCHANGED <<serverVars, streamVars, cx>>

NextClient ==
    \/ \E mwm \in ClientMwms : ClientPowFunc(mwm)
    \/ \E ok \in BOOLEAN : ClientDial(ok)
    \/ \E ok \in BOOLEAN, reply \in Replies(cl.reqID) : ClientWrite(ok, reply)
    \/ ClientTimeout
    \/ \E n \in 1..Len(cl.wire) : ClientRead(n)
    \/ ClientReturn

SpecClient == InitClient /\ [][NextClient]_vars

(***************************************************************************)
(* sendToServer and receive with their clock: the read deadline, the time  *)
(* receive started, and a peer that answers in full, in part or not at     *)
(* all, and may close the connection.                                      *)
(***************************************************************************)
\* p.ReadTimeOutMs, in ticks of the clock
DeadlineTimeOuts == {0, 1, 2}

\* the call's clock, deadline and connection.  deadline -1: none was set
ClockFields ==
    [now |-> 0, ts |-> 0, deadline |-> -1, open |-> FALSE, peerClosed |-> FALSE,
     at |-> "top"]

\* what the peer sends: nothing, a reply, or a reply cut short
PeerSends(reqID) ==
    LET full == { MessageToBytes(NewIpcMessageV1(reqID, IpcCmdResponse, <<57, 65>>)),
                  MessageToBytes(NewIpcMessageV1(reqID, IpcCmdError, <<101>>)),
                  CorruptCrc(MessageToBytes(NewIpcMessageV1(reqID, IpcCmdResponse, <<57>>))) }
    IN  {<<>>} \cup full \cup {SubSeq(r, 1, Len(r) - 1) : r \in full}
               \cup {SubSeq(r, 1, 3) : r \in full}

\* a difficulty PowFunc accepts and one it refuses
DeadlineMwms == {14, MaxClientMwm + 1}

InitDeadline ==
    /\ InitServer
    /\ garbage = <<>>
    /\ stream = <<>>
    /\ delivered = 0
    /\ cx = NoCodec
    /\ \E t \in DeadlineTimeOuts : cl = NewClient(t) @@ ClockFields

\* the application calls PowFunc; the clock of the model counts from here
DeadlineCall(mwm) ==
    /\ cl.pc = "idle"
    /\ cl.RequestId < MaxClientCalls
    /\ cl' = PowFunc([cl EXCEPT !.mwm = mwm, !.request = <<>>, !.dialed = FALSE,
                                !.sent = <<>>, !.wire = <<>>, !.got = 0,
                                !.response = <<>>, !.err = NoError,
                                !.received = FALSE,
                                !.sres = [response |-> <<>>, err |-> NoError],
                                !.now = 0, !.ts = 0, !.deadline = -1, !.open = FALSE,
                                !.peerClosed = FALSE, !.at = "top"],
                     ClientTrytes, mwm)
    /\ UNCHANGED <<serverVars, streamVars, cx>>

\* sendToServer: net.Dial, defer c.Close(), SetReadDeadline when
\* ReadTimeOutMs is not 0
DeadlineDial(ok) ==
    /\ cl.pc = "dial"
    /\ cl' = IF ok
             THEN [cl EXCEPT !.pc = "write", !.dialed = TRUE, !.open = TRUE,
                             !.deadline = IF cl.ReadTimeOutMs # 0
                                          THEN cl.now + cl.ReadTimeOutMs ELSE -1]
             ELSE Fail(cl, Text("dial", <<>>))
    /\ UNCHANGED <<serverVars, streamVars, cx>>

\* sendToServer: c.Write; on an error it returns and the deferred Close
\* runs; else receive starts: fresh parser, ts := time.Now()
DeadlineWrite(ok, reply) ==
    /\ cl.pc = "write"
    /\ cl' = IF ok
             THEN [cl EXCEPT !.pc = "recv", !.at = "top", !.ts = cl.now,
                             !.sent = cl.request, !.wire = reply, !.got = 0,
                             !.frameState = FrameStateSearchEnq, !.frameLength = 0,
                             !.frameData = <<>>, !.buf = <<>>, !.bufferIdx = -1]
             ELSE [Fail(cl, Text("write", <<>>)) EXCEPT !.open = FALSE]
    /\ UNCHANGED <<serverVars, streamVars, cx>>

\* time.Since(ts) > td.  Two readings of the clock differ by a positive
\* time, of less than a tick when now = ts
TimeOver(c) == c.ReadTimeOutMs = 0 \/ c.now - c.ts > c.ReadTimeOutMs

\* the top of the loop of receive without the check of the time
ReceiveLoopNoCheck ==
    /\ cl.pc = "recv"
    /\ cl.at = "top"
    /\ cl' = [cl EXCEPT !.at = "read"]
    /\ UNCHANGED <<serverVars, streamVars, cx>>

\* the top of the loop of receive: over time, it returns the error and the
\* deferred Close runs; else it goes on to c.Read
ReceiveLoop ==
    /\ cl.pc = "recv"
    /\ cl.at = "top"
    /\ cl' = IF TimeOver(cl)
             THEN [Fail(cl, Text("Receive timeout", <<>>)) EXCEPT !.open = FALSE]
             ELSE [cl EXCEPT !.at = "read"]
    /\ UNCHANGED <<serverVars, streamVars, cx>>

\* the read deadline of the connection has passed
DeadlinePassed(c) == c.deadline # -1 /\ c.now >= c.deadline

\* c.Read returns the next n bytes of the peer, which the inner loop
\* parses; receive returns at a CRC byte, and the deferred Close runs
ReceiveRead(n) ==
    /\ cl.pc = "recv"
    /\ cl.at = "read"
    /\ ~DeadlinePassed(cl)
    /\ cl.got + n <= Len(cl.wire)
    /\ LET c == ReceiveBuffer([cl EXCEPT !.buf = SubSeq(cl.wire, cl.got + 1, cl.got + n),
                                         !.bufferIdx = -1, !.got = @ + n])
       IN  cl' = [c EXCEPT !.at = "top", !.open = (c.pc = "recv")]
    /\ UNCHANGED <<serverVars, streamVars, cx>>

\* c.Read returns an error, the deadline being over or the peer having
\* closed: continue
ReceiveReadErr ==
    /\ cl.pc = "recv"
    /\ cl.at = "read"
    /\ DeadlinePassed(cl) \/ (cl.peerClosed /\ cl.got = Len(cl.wire))
    /\ cl' = [cl EXCEPT !.at = "top"]
    /\ UNCHANGED <<serverVars, streamVars, cx>>

\* the peer closes the connection
PeerCloses ==
    /\ cl.pc \in {"write", "recv"}
    /\ ~cl.peerClosed
    /\ cl' = [cl EXCEPT !.peerClosed = TRUE]
    /\ UNCHANGED <<serverVars, streamVars, cx>>

\* a tick of the clock; the model stops the clock MaxStartTicks after the
\* call as long as receive has not started, and once receive is over time
Tick ==
    /\ \/ cl.pc \in {"dial", "write"} /\ cl.now < MaxStartTicks
       \/ cl.pc = "recv" /\ cl.now <= cl.ts + cl.ReadTimeOutMs
    /\ cl' = [cl EXCEPT !.now = @ + 1]
    /\ UNCHANGED <<serverVars, streamVars, cx>>

NextDeadline ==
    \/ \E mwm \in DeadlineMwms : DeadlineCall(mwm)
    \/ \E ok \in BOOLEAN : DeadlineDial(ok)
    \/ \E ok \in BOOLEAN, reply \in PeerSends(cl.reqID) : DeadlineWrite(ok, reply)
    \/ ReceiveLoop
    \/ \E n \in 1..Len(cl.wire) : ReceiveRead(n)
    \/ ReceiveReadErr
    \/ PeerCloses
    \/ Tick
    \/ ClientReturn

SpecDeadline == InitDeadline /\ [][NextDeadline]_vars

\* the call is at c.Write: a step of DeadlineWrite is possible
WritePending == cl.pc = "write"

\* c.Read has something to return
ReadReady ==
    /\ cl.pc = "recv"
    /\ cl.at = "read"
    /\ DeadlinePassed(cl) \/ cl.peerClosed \/ cl.got < Len(cl.wire)

\* the goroutine of the call takes its steps, a c.Read that has something
\* to return returns, and time passes
SpecDeadlineFair ==
    /\ SpecDeadline
    /\ WF_vars(\E ok \in BOOLEAN : DeadlineDial(ok))
    /\ []<>~WritePending
    /\ WF_vars(ReceiveLoop)
    /\ WF_vars(Tick)
    /\ []<>~ReadReady


(***************************************************************************)
(* The parser of the server (session 1) and the parser of the client's     *)
(* receive, given the same reads of the same stream and run in step, one   *)
(* turn of the inner loop at a time, until the CRC byte has been handled.  *)
(***************************************************************************)
ParserStreams ==
    ValidFrames \cup BadCrcFrames \cup UndecodableFrames
        \cup {<<5, 2, 0>> \o ReqGetServerVersion, <<5, 1, 0>>, <<5, 5, 1, 0, 1, 7, Checksum(<<7>>)>>}

InitParsers ==
    /\ InitServer
    /\ garbage = <<>>
    /\ stream \in ParserStreams
    /\ delivered = 0
    /\ cx = NoCodec
    /\ cl = [NewClient(100) EXCEPT !.pc = "recv"]

\* both reads return the next n bytes of the stream
FeedBoth(n) ==
    /\ sess[1].pc = "read"
    /\ cl.pc = "recv"
    /\ cl.buf = <<>>
    /\ delivered + n <= Len(stream)
    /\ LET chunk == SubSeq(stream, delivered + 1, delivered + n)
       IN  /\ sess' = [sess EXCEPT ![1].buf = chunk, ![1].bufferIdx = -1, ![1].pc = "run"]
           /\ cl' = [cl EXCEPT !.buf = chunk, !.bufferIdx = -1]
    /\ delivered' = delivered + n
    /\ reads' = reads + 1
    /\ UNCHANGED <<conn, powMutex, powFuncPtr, inflight, calls, maxMwm, crashed,
                   garbage, stream, cx>>

\* one turn of the server's inner loop
ServerTurn(h) ==
    LET n == [h EXCEPT !.bufferIdx = @ + 1]
    IN  IF Len(n.buf) > n.bufferIdx
        THEN ParseByte(n, TRUE, maxMwm)
        ELSE [n EXCEPT !.pc = "read", !.buf = <<>>, !.bufferIdx = -1]

\* one turn of the inner loop of receive
ClientTurn(c) ==
    LET c1 == [c EXCEPT !.bufferIdx = @ + 1]
    IN  IF Len(c1.buf) > c1.bufferIdx
        THEN ReceiveByte(c1)
        ELSE [c1 EXCEPT !.buf = <<>>, !.bufferIdx = -1]

\* both parsers take one turn of their inner loops
TurnBoth ==
    /\ sess[1].pc = "run"
    /\ sess[1].log = <<>>
    /\ cl.pc = "recv"
    /\ sess' = [sess EXCEPT ![1] = ServerTurn(sess[1])]
    /\ cl' = ClientTurn(cl)
    /\ UNCHANGED <<conn, powMutex, powFuncPtr, inflight, calls, maxMwm, reads, crashed,
                   streamVars, cx>>

NextParsers ==
    \/ \E n \in 1..Len(stream) : FeedBoth(n)
    \/ TurnBoth

SpecParsers == InitParsers /\ [][NextParsers]_vars

\* the parser states of a session that is sent two frames one after the
\* other, and those of the two parsers run in step
InitParserStates == InitPipeline \/ InitParsers

NextParserStates ==
    \/ cl = NoClient /\ NextChunk
    \/ cl # NoClient /\ NextParsers

SpecParserStates == InitParserStates /\ [][NextParserStates]_vars


(***************************************************************************)
(* One call of the client against the server: session 1 serves the         *)
(* connection the client dials, stream is what the client wrote to it.     *)
(***************************************************************************)
\* sendToServer: c.Write puts the request on the connection, receive starts
ClientSend ==
    /\ cl.pc = "write"
    /\ conn[1] = "open"
    /\ stream' = cl.request
    /\ cl' = [cl EXCEPT !.pc = "recv", !.sent = cl.request]
    /\ UNCHANGED <<serverVars, garbage, delivered, cx>>

\* the replies session 1 has written to the open connection
WrittenReplies ==
    {i \in 1..Len(sess[1].log) : sess[1].log[i].ev = "write" /\ sess[1].log[i].ok}

\* receive: the reads return the frame the server wrote before the time is
\* over, and receive returns its payload
ClientReceive ==
    /\ cl.pc = "recv"
    /\ cl.ReadTimeOutMs > 0
    /\ WrittenReplies # {}
    /\ cl' = [cl EXCEPT !.pc = "done", !.received = TRUE]
    /\ UNCHANGED <<serverVars, streamVars, cx>>

\* sendToServer returns: the deferred c.Close()
ClientClose ==
    /\ cl.pc = "done"
    /\ cl' = [cl EXCEPT !.pc = "returned"]
    /\ conn' = IF cl.dialed THEN [conn EXCEPT ![1] = "peerclosed"] ELSE conn
    /\ UNCHANGED <<sess, powMutex, powFuncPtr, inflight, calls, maxMwm, reads, crashed,
                   streamVars, cx>>

\* c.Read on the server: what the client wrote is read before the end of
\* the stream is reported
ReadEOF(s) ==
    /\ delivered = Len(stream)
    /\ ReadErr(s)

NextTimeout ==
    \/ \E mwm \in ClientMwms : ClientPowFunc(mwm)
    \/ \E ok \in BOOLEAN : ClientDial(ok)
    \/ ClientSend
    \/ ClientReceive
    \/ ClientTimeout
    \/ ClientClose
    \/ \E n \in 1..Len(stream) : ReadStream(1, n)
    \/ ReadEOF(1)
    \/ PowLock(1)
    \/ PowCall(1)
    \/ \E r \in EngineResults : PowReturn(1, r)
    \/ PowUnlock(1)
    \/ PowReply(1)

SpecTimeout == InitClient /\ [][NextTimeout]_vars

\* the handler is blocked in c.Read and the connection holds bytes it has
\* not read: a step of ReadStream is possible
DataPending ==
    /\ ~crashed
    /\ sess[1].pc = "read"
    /\ delivered < Len(stream)

\* powFunc has returned to the handler: a step of PowReply is possible
ReplyPending ==
    /\ ~crashed
    /\ sess[1].pc = "reply"

\* the deferred Close runs, the server goroutine runs, and every engine
\* call returns.  The last two lines are the weak fairness of ReadStream and
\* of PowReply, stated on the states in which they are enabled: a step of
\* PowReply ends ReplyPending, and the steps of ReadStream, which consume a
\* finite stream, end DataPending.
SpecTimeoutFair ==
    /\ SpecTimeout
    /\ WF_vars(ClientClose)
    /\ WF_vars(ReadEOF(1))
    /\ WF_vars(PowLock(1))
    /\ WF_vars(PowCall(1))
    /\ WF_vars(\E r \in EngineResults : PowReturn(1, r))
    /\ WF_vars(PowUnlock(1))
    /\ []<>~DataPending
    /\ []<>~ReplyPending

\* ---------------------------------------------------------------------
\* Several goroutines calling sendIpcFrameV1ToServer on one DiverClient.
\* p.RequestId++ is a load and a store of the byte; the calls are in flight
\* from the moment they own a req_id until they return.

Callers == 1..NumCallers

\* values of RequestId the client has after some earlier calls
StartIds == {0, 253, 254, 255}

NewCaller == [pc |-> "idle", tmp |-> 0, reqID |-> 0]

SharedClient(id) ==
    [pc |-> "shared", RequestId |-> id, RequestIdLock |-> FALSE, start |-> id,
     started |-> 0, incs |-> 0, caller |-> [c \in Callers |-> NewCaller]]

InitIds ==
    /\ InitServer
    /\ garbage = <<>>
    /\ stream = <<>>
    /\ delivered = 0
    /\ cx = NoCodec
    /\ \E id \in StartIds : cl = SharedClient(id)

\* p.RequestIdLock.Lock() taken without waiting for the holder
IdLockNoWait(c) ==
    /\ cl.caller[c].pc = "idle"
    /\ cl.started < MaxIdCalls
    /\ cl' = [cl EXCEPT !.RequestIdLock = TRUE, !.started = @ + 1,
                        !.caller[c].pc = "load"]
    /\ UNCHANGED <<serverVars, streamVars, cx>>

\* p.RequestIdLock.Lock()
IdLock(c) ==
    /\ cl.caller[c].pc = "idle"
    /\ cl.started < MaxIdCalls
    /\ ~cl.RequestIdLock
    /\ cl' = [cl EXCEPT !.RequestIdLock = TRUE, !.started = @ + 1,
                        !.caller[c].pc = "load"]
    /\ UNCHANGED <<serverVars, streamVars, cx>>

\* p.RequestId++ : the read of the byte
IdLoad(c) ==
    /\ cl.caller[c].pc = "load"
    /\ cl' = [cl EXCEPT !.caller[c].tmp = cl.RequestId, !.caller[c].pc = "store"]
    /\ UNCHANGED <<serverVars, streamVars, cx>>

\* p.RequestId++ : the write of the byte, one more than what was read
IdStore(c) ==
    /\ cl.caller[c].pc = "store"
    /\ cl' = [cl EXCEPT !.RequestId = (cl.caller[c].tmp + 1) % 256,
                        !.incs = @ + 1,
                        !.caller[c].pc = "copy"]
    /\ UNCHANGED <<serverVars, streamVars, cx>>

\* reqID := p.RequestId
IdCopy(c) ==
    /\ cl.caller[c].pc = "copy"
    /\ cl' = [cl EXCEPT !.caller[c].reqID = cl.RequestId, !.caller[c].pc = "unlock"]
    /\ UNCHANGED <<serverVars, streamVars, cx>>

\* p.RequestIdLock.Unlock(); the request with reqID is now under way
IdUnlock(c) ==
    /\ cl.caller[c].pc = "unlock"
    /\ cl' = [cl EXCEPT !.RequestIdLock = FALSE, !.caller[c].pc = "call"]
    /\ UNCHANGED <<serverVars, streamVars, cx>>

\* sendIpcFrameV1ToServer returns
IdReturn(c) ==
    /\ cl.caller[c].pc = "call"
    /\ cl' = [cl EXCEPT !.caller[c] = NewCaller]
    /\ UNCHANGED <<serverVars, streamVars, cx>>

NextIds ==
    \/ \E c \in Callers : IdLock(c)
    \/ \E c \in Callers : IdLoad(c)
    \/ \E c \in Callers : IdStore(c)
    \/ \E c \in Callers : IdCopy(c)
    \/ \E c \in Callers : IdUnlock(c)
    \/ \E c \in Callers : IdReturn(c)

SpecIds == InitIds /\ [][NextIds]_vars

\* ---------------------------------------------------------------------
\* client.Initialize and utils.IsValidRemoteURL.  An endpoint string is a
\* sequence of characters; net/url is followed for the characters of
\* UrlChars (a letter, a digit, the colon and the slash).

UrlChars == {"h", "1", ":", "/"}

Endpoints == SeqsUpTo(UrlChars, MaxUrlLen)

IsLetter(c) == c = "h"

IsDigit(c) == c = "1"

HasPrefix(s, p) == Len(s) >= Len(p) /\ SubSeq(s, 1, Len(p)) = p

\* index of the first c in s from i on, 0 when there is none
RECURSIVE IndexFrom(_, _, _)
IndexFrom(s, c, i) ==
    IF i > Len(s) THEN 0
    ELSE IF s[i] = c THEN i
    ELSE IndexFrom(s, c, i + 1)

\* index of the last c in s at or before i, 0 when there is none
RECURSIVE LastIndexFrom(_, _, _)
LastIndexFrom(s, c, i) ==
    IF i < 1 THEN 0
    ELSE IF s[i] = c THEN i
    ELSE LastIndexFrom(s, c, i - 1)

\* url.getScheme
RECURSIVE GetSchemeFrom(_, _)
GetSchemeFrom(s, i) ==
    IF i > Len(s) THEN [scheme |-> <<>>, rest |-> s, err |-> ""]
    ELSE IF IsLetter(s[i]) THEN GetSchemeFrom(s, i + 1)
    ELSE IF IsDigit(s[i])
         THEN IF i = 1 THEN [scheme |-> <<>>, rest |-> s, err |-> ""]
              ELSE GetSchemeFrom(s, i + 1)
    ELSE IF s[i] = ":"
         THEN IF i = 1 THEN [scheme |-> <<>>, rest |-> <<>>, err |-> "missing protocol scheme"]
              ELSE [scheme |-> SubSeq(s, 1, i - 1), rest |-> SubSeq(s, i + 1, Len(s)),
                    err |-> ""]
    ELSE [scheme |-> <<>>, rest |-> s, err |-> ""]

\* url.validOptionalPort
ValidOptionalPort(port) ==
    \/ port = <<>>
    \/ /\ port[1] = ":"
       /\ \A i \in 2..Len(port) : IsDigit(port[i])

\* url.parseHost for a host without brackets
ParseHostErr(host) ==
    LET colon == LastIndexFrom(host, ":", Len(host))
    IN  IF colon # 0 /\ ~ValidOptionalPort(SubSeq(host, colon, Len(host)))
        THEN "invalid port after host"
        ELSE ""

NilURL(err) == [nil |-> TRUE, err |-> err, Scheme |-> <<>>, Host |-> <<>>, Path |-> <<>>]

\* url.ParseRequestURI: the URL, or nil and an error
ParseRequestURI(rawURL) ==
    IF rawURL = <<>> THEN NilURL("empty url")
    ELSE LET gs == GetSchemeFrom(rawURL, 1)
             rest == gs.rest
         IN  IF gs.err # "" THEN NilURL(gs.err)
             ELSE IF ~HasPrefix(rest, <<"/">>)
                  THEN IF gs.scheme # <<>>
                       THEN [nil |-> FALSE, err |-> "", Scheme |-> gs.scheme,
                             Host |-> <<>>, Path |-> <<>>]
                       ELSE NilURL("invalid URI for request")
             ELSE IF gs.scheme # <<>> /\ HasPrefix(rest, <<"/", "/">>)
                  THEN LET after == SubSeq(rest, 3, Len(rest))
                           slash == IndexFrom(after, "/", 1)
                           authority == IF slash = 0 THEN after
                                        ELSE SubSeq(after, 1, slash - 1)
                           path == IF slash = 0 THEN <<>>
                                   ELSE SubSeq(after, slash, Len(after))
                       IN  IF ParseHostErr(authority) # ""
                           THEN NilURL(ParseHostErr(authority))
                           ELSE [nil |-> FALSE, err |-> "", Scheme |-> gs.scheme,
                                 Host |-> authority, Path |-> path]
             ELSE [nil |-> FALSE, err |-> "", Scheme |-> gs.scheme,
                   Host |-> <<>>, Path |-> rest]

\* (*URL).Hostname: the host without a valid port
Hostname(uri) ==
    LET colon == LastIndexFrom(uri.Host, ":", Len(uri.Host))
    IN  IF colon # 0 /\ ValidOptionalPort(SubSeq(uri.Host, colon, Len(uri.Host)))
        THEN SubSeq(uri.Host, 1, colon - 1)
        ELSE uri.Host

\* utils.IsValidRemoteURL: Hostname is called on the result of
\* ParseRequestURI before the error is looked at, and that result is nil on
\* an error
IsValidRemoteURL(toTest) ==
    LET uri == ParseRequestURI(toTest)
    IN  IF uri.nil THEN "panic"
        ELSE IF Hostname(uri) = <<>> THEN "false"
        ELSE "true"

\* client.Initialize
Initialize(diverDriverPath, writeTimeOutMs, readTimeOutMs) ==
    LET remote == IsValidRemoteURL(diverDriverPath)
        p == [DiverDriverPath |-> diverDriverPath, WriteTimeOutMs |-> writeTimeOutMs,
              ReadTimeOutMs |-> readTimeOutMs]
    IN  IF remote = "panic"
        THEN p @@ [pc |-> "panic", PowClientImplementation |-> "nil"]
        ELSE IF remote = "true"
        THEN p @@ [pc |-> "initialized", PowClientImplementation |-> "RemoteClient"]
        ELSE p @@ [pc |-> "initialized", PowClientImplementation |-> "IpcClient"]

InitEndpoint ==
    /\ InitServer
    /\ garbage = <<>>
    /\ stream = <<>>
    /\ delivered = 0
    /\ cx = NoCodec
    /\ \E e \in Endpoints :
          cl = [pc |-> "endpoint", DiverDriverPath |-> e]

\* the application calls client.Initialize with its endpoint string
CallInitialize ==
    /\ cl.pc = "endpoint"
    /\ \E t \in ClientTimeOuts : cl' = Initialize(cl.DiverDriverPath, 0, t)
    /\ UNCHANGED <<serverVars, streamVars, cx>>

NextEndpoint == CallInitialize

SpecEndpoint == InitEndpoint /\ [][NextEndpoint]_vars

(***************************************************************************)
(* Properties.                                                             *)
(***************************************************************************)
Log(s) == sess[s].log

\* the sessions that are inside powFunc holding the mutex
InPowFunc == {"locked", "engine", "unlock"}

\* in log l, the write at j answers the frame dispatched at i
Answers(l, i, j) ==
    /\ i < j
    /\ l[i].ev = "dispatch"
    /\ l[j].ev = "write"
    /\ \A k \in (i + 1)..(j - 1) : l[k].ev = "engine"

\* C1: with sessions issuing DoWork concurrently, at most one engine
\* invocation is in flight: the counter kept around the engine call never
\* exceeds 1, and at most one session is inside the engine.
C1_MutualExclusion ==
    /\ inflight <= 1
    /\ inflight = Cardinality({s \in Sessions : sess[s].pc = "engine"})

C1_Witness ==
    /\ inflight = 1
    /\ \E s \in Sessions : sess[s].pc = "lock"

\* C2: the mutex is held exactly by the session that is inside powFunc; once
\* powFunc has returned (engine success, engine error, slot unset) the
\* session no longer holds it, so another session can take it.
C2_MutexFreeAfterReturn ==
    /\ powMutex \in {0} \cup Sessions
    /\ \A s \in Sessions : (powMutex = s) <=> (sess[s].pc \in InPowFunc)

C2_Witness ==
    \E s, t \in Sessions :
        /\ s # t
        /\ sess[s].pc = "reply"
        /\ sess[s].result.err = "pow failed"
        /\ sess[t].pc = "engine"

\* C3: the reply written for a dispatched frame (well-formed payload, correct
\* CRC), whatever the command and the outcome, carries the req_id that is
\* the first byte of the request's payload.
C3_ReplyCarriesReqID ==
    \A s \in Sessions : \A i, j \in 1..Len(Log(s)) :
        Answers(Log(s), i, j) => Log(s)[j].ReqID = Log(s)[i].payload[1]

C3_Witness ==
    \E i \in 1..(Len(Log(1)) - 2) :
        /\ Log(1)[i].ev = "dispatch"
        /\ Log(1)[i].Command = IpcCmdPowFunc
        /\ Log(1)[i + 1].ev = "engine"
        /\ Log(1)[i + 2].ev = "write"
        /\ Log(1)[i + 2].Command = IpcCmdError
        /\ Log(1)[i + 2].ReqID = 1

\* the difficulty byte of the DoWork frame dispatched at entry e
MwmOf(e) == e.payload[5]
IsDoWork(e) == e.ev = "dispatch" /\ e.Command = IpcCmdPowFunc /\ Len(e.payload) >= 5
IsGateError(e) ==
    /\ e.ev = "write"
    /\ e.Command = IpcCmdError
    /\ e.Data.fmt = "MinWeightMagnitude too high. MWM: %v Allowed: %v"

\* C4: a DoWork whose difficulty byte exceeds pow.maxMinWeightMagnitude is
\* answered with an Error and never reaches the engine; a DoWork whose
\* difficulty equals the maximum is not refused by the gate.
C4_DifficultyGate ==
    \A s \in Sessions : \A i \in 1..Len(Log(s)) :
        /\ (IsDoWork(Log(s)[i]) /\ MwmOf(Log(s)[i]) > maxMwm)
               => (i < Len(Log(s)) /\ IsGateError(Log(s)[i + 1]))
        /\ (IsDoWork(Log(s)[i]) /\ MwmOf(Log(s)[i]) = maxMwm /\ i < Len(Log(s)))
               => ~IsGateError(Log(s)[i + 1])
        /\ Log(s)[i].ev = "engine" => Log(s)[i].mwm <= maxMwm

C4_Witness ==
    \E i, j \in 1..(Len(Log(1)) - 1) :
        /\ IsDoWork(Log(1)[i]) /\ MwmOf(Log(1)[i]) = maxMwm + 1
        /\ IsGateError(Log(1)[i + 1])
        /\ IsDoWork(Log(1)[j]) /\ MwmOf(Log(1)[j]) = maxMwm
        /\ Log(1)[j + 1].ev = "engine"

\* C6: protocol-level failures leave the session open and only a socket read
\* error ends a session: neither a session nor the process ends in a panic,
\* and a session that has ended saw its peer close the connection.
C6_OnlyReadErrorEndsSession ==
    /\ ~crashed
    /\ \A s \in Sessions :
        /\ sess[s].pc # "panic"
        /\ sess[s].pc = "closed" => conn[s] = "peerclosed"

\* C7: once a write of a reply has failed, the session dispatches no further
\* frame and invokes the engine for no further request.
C7_NoDispatchAfterFailedWrite ==
    \A s \in Sessions : \A i, j \in 1..Len(Log(s)) :
        (i < j /\ Log(s)[i].ev = "write" /\ ~Log(s)[i].ok)
            => Log(s)[j].ev \notin {"dispatch", "engine"}

\* the frame that follows the garbage on the stream, and its payload
StreamFrame == SubSeq(stream, Len(garbage) + 1, Len(stream))
StreamPayload == SubSeq(StreamFrame, 5, Len(StreamFrame) - 1)

\* how often the handler of session s dispatched a frame with this payload
Dispatched(s, payload) ==
    Cardinality({i \in 1..Len(Log(s)) :
                    Log(s)[i].ev = "dispatch" /\ Log(s)[i].payload = payload})

\* the handler after a single read that returns the whole stream
OneRead ==
    HandleBuffer([NewHandler EXCEPT !.buf = stream, !.bufferIdx = -1, !.pc = "run"],
                 TRUE, maxMwm)

\* C8: a valid frame delivered in chunks of any sizes gives what it gives
\* when delivered in one read: the same payload is dispatched, the same
\* replies are written first, and the handler holds the same frame length and
\* accumulated payload and, at the same point of the handler, the same
\* parser phase and the same proof-of-work request (after a proof of work
\* the phase is SearchStart).
C8_ChunkInvariance ==
    (garbage = <<>> /\ delivered = Len(stream) /\ Len(stream) > 0) =>
        /\ Dispatched(1, StreamPayload) = 1
        /\ Len(Log(1)) >= Len(OneRead.log)
        /\ SubSeq(Log(1), 1, Len(OneRead.log)) = OneRead.log
        /\ sess[1].frameLength = OneRead.frameLength
        /\ sess[1].frameData = OneRead.frameData
        /\ (sess[1].pc = "read" /\ OneRead.pc = "lock") =>
              sess[1].frameState = FrameStateSearchEnq
        /\ sess[1].pc = OneRead.pc =>
              /\ sess[1].frameState = OneRead.frameState
              /\ sess[1].reqID = OneRead.reqID
              /\ sess[1].mwm = OneRead.mwm
              /\ sess[1].trytes = OneRead.trytes

\* the frame arrived one byte per read
C8_Witness ==
    /\ garbage = <<>>
    /\ Len(stream) > 0
    /\ delivered = Len(stream)
    /\ reads = Len(stream)
    /\ sess[1].pc = "lock"
    /\ sess[1].trytes = <<65>>

\* the parser is back in SearchStart after the garbage
GarbageEndsInSearchStart ==
    HandleBuffer([NewHandler EXCEPT !.buf = garbage, !.bufferIdx = -1, !.pc = "run"],
                 TRUE, maxMwm).frameState = FrameStateSearchEnq

\* the frame's payload was dispatched exactly once and the parser is back in
\* SearchStart (a DoWork has set it on its return at the latest)
ResyncDone ==
    /\ Dispatched(1, StreamPayload) = 1
    /\ sess[1].pc = "read" => sess[1].frameState = FrameStateSearchEnq

\* C9 as claimed: after any garbage prefix, also one ending in 0x05 or in
\* 0x05 0x01, the frame's payload is emitted exactly once and the parser ends
\* in SearchStart.
C9_ResyncAfterAnyGarbage ==
    (delivered = Len(stream) /\ Len(stream) > 0) => ResyncDone

\* C9 as amended: after a garbage prefix that leaves the parser in
\* SearchStart, the frame's payload is emitted exactly once and the parser
\* ends in SearchStart.
C9_ResyncAfterGarbage ==
    (delivered = Len(stream) /\ Len(stream) > 0 /\ GarbageEndsInSearchStart) => ResyncDone

C9_Witness ==
    /\ garbage = <<5, 0>>
    /\ delivered = Len(stream)
    /\ reads >= 3
    /\ sess[1].pc = "read"
    /\ Dispatched(1, StreamPayload) = 1
    /\ sess[1].frameState = FrameStateSearchEnq

\* C10: decoding the payload bytes NewIpcMessageV1 produced for a triple
\* gives back the req_id, the command and the data of the triple.
C10_RoundTrip ==
    cx.pc = "decoded" =>
        /\ cx.frame.err = ""
        /\ cx.frame.ReqID = cx.ReqID
        /\ cx.frame.Command = cx.Command
        /\ cx.frame.Data = cx.Data
        /\ cx.frame.DataLength = Len(cx.Data)

C10_Witness ==
    /\ cx.pc = "decoded"
    /\ cx.ReqID = 255
    /\ cx.Command = IpcCmdPowFunc
    /\ Len(cx.Data) = LongDataLen
    /\ cx.frame.DataLength = LongDataLen
    /\ cx.frame.Data = cx.Data

RangeError(e) == e.fmt = "minWeightMagnitude out of range [0-243]: %v"

\* C5: PowFunc called with a difficulty below 0 or above 243 returns the
\* range error and has built no message, not dialed and not written a
\* byte; with a difficulty from 0 to 243, these two included, it does
\* not return the range error, goes on to dial, and what it writes is the
\* DoWork frame that carries the difficulty.
C5_ClientDifficultyRange ==
    cl.pc \notin {"none", "idle"} =>
        IF cl.mwm < 0 \/ cl.mwm > 243
        THEN /\ cl.pc = "done"
             /\ RangeError(cl.err)
             /\ ~cl.dialed
             /\ cl.sent = <<>>
             /\ cl.request = <<>>
        ELSE /\ ~RangeError(cl.err)
             /\ cl.reqID = cl.RequestId
             /\ cl.pc = "recv" =>
                   /\ cl.dialed
                   /\ cl.sent = MessageToBytes(NewIpcMessageV1(cl.reqID, IpcCmdPowFunc,
                                                               <<cl.mwm>> \o ClientTrytes))

C5_Witness ==
    /\ cl.pc = "recv"
    /\ cl.mwm = 243
    /\ cl.dialed
    /\ Len(cl.sent) = 11
    /\ cl.sent[5] = cl.reqID
    /\ cl.sent[6] = IpcCmdPowFunc
    /\ cl.sent[9] = 243

\* C11: a message NewIpcMessageV1 returns without error carries on the wire
\* a frame_length equal to the byte length of its payload, len(data) + 4,
\* and a triple whose payload is longer than 0xFFFF bytes is refused.
C11_FrameLengthNotTruncated ==
    /\ (cx.pc \in {"encoded", "decoded"} /\ cx.msg.err = "") =>
           /\ Len(cx.msg.FrameData) = Len(cx.Data) + 4
           /\ WireFrameLength(cx.msg) = Len(cx.Data) + 4
    /\ cx.pc = "measured" =>
           /\ cx.err = "" =>
                 /\ cx.payloadLen = cx.DataLen + 4
                 /\ cx.wireLen = cx.DataLen + 4
           /\ cx.DataLen + 4 > MaxMessageData => cx.err # ""

\* C14 as claimed: decoding fails when the input is shorter than 4 bytes
\* and when the declared data_length differs from the number of bytes after
\* the 4-byte header, be it larger or smaller.
C14_DecodeFailsOnLengthMismatch ==
    cx.pc = "unpacked" =>
        \/ cx.frame.err # ""
        \/ /\ Len(cx.bytes) >= 4
           /\ (cx.bytes[3] * 256) + cx.bytes[4] = Len(cx.bytes) - 4

\* the payload and the CRC byte of the refused frame
GarbagePayload == SubSeq(garbage, 5, Len(garbage) - 1)
GarbageCrc == garbage[Len(garbage)]

Undecodable == BytesToIpcFrameV1(GarbagePayload).err # ""
BadCrc == ~Undecodable /\ GarbageCrc # Checksum(GarbagePayload)

\* C12 as claimed: a frame with a well-formed payload and a corrupted CRC
\* byte is answered by an Error frame with req_id 0 that tells the checksum
\* mismatch, is not dispatched, and the valid frame after it is dispatched.
C12_BadCrcAnsweredWithReqIDZero ==
    (BadCrc /\ delivered >= Len(garbage)) =>
        /\ Len(Log(1)) >= 1
        /\ Log(1)[1].ev = "write"
        /\ Log(1)[1].Command = IpcCmdError
        /\ Log(1)[1].Data.fmt = "Wrong Checksum! CRC: %X, Expected: %X"
        /\ Log(1)[1].ReqID = 0
        /\ Dispatched(1, GarbagePayload) = 0
        /\ delivered = Len(stream) => Dispatched(1, StreamPayload) = 1

\* C13: a frame whose payload cannot be decoded is answered by an Error
\* frame with req_id 0 that carries the decoder's error; nothing is
\* dispatched and the engine is not invoked for it, and the parser is back in
\* SearchStart, so that the valid frame after it is dispatched.
C13_UndecodablePayload ==
    (Undecodable /\ delivered >= Len(garbage)) =>
        /\ Len(Log(1)) >= 1
        /\ Log(1)[1].ev = "write"
        /\ Log(1)[1].ReqID = 0
        /\ Log(1)[1].Command = IpcCmdError
        /\ Log(1)[1].Data = Text(BytesToIpcFrameV1(GarbagePayload).err, <<>>)
        /\ Dispatched(1, GarbagePayload) = 0
        /\ delivered = Len(garbage) =>
              /\ Len(Log(1)) = 1
              /\ calls = 0
              /\ sess[1].pc = "read"
              /\ sess[1].frameState = FrameStateSearchEnq
        /\ delivered = Len(stream) => Dispatched(1, StreamPayload) = 1

C13_Witness ==
    /\ garbage = FrameLongDataLength
    /\ delivered = Len(stream)
    /\ reads >= 2
    /\ Len(Log(1)) >= 3
    /\ Log(1)[1].ReqID = 0
    /\ Log(1)[1].Data.fmt = "unexpected EOF"
    /\ Log(1)[2].ev = "dispatch"
    /\ Dispatched(1, StreamPayload) = 1

\* the req_ids of the first and of the second frame on the stream
FirstLen == 5 + (stream[3] * 256) + stream[4]
FirstID == stream[5]
SecondID == stream[FirstLen + 5]

\* the entries of session 1's log of these kinds that carry this req_id
Entries(kinds, id) ==
    {i \in 1..Len(Log(1)) : Log(1)[i].ev \in kinds /\ Log(1)[i].ReqID = id}

\* C15: of two frames received one after the other in one session, the
\* reply to the first is written before the second is dispatched and before
\* the reply to the second, also when the first is a DoWork and the second a
\* metadata request; each frame gets at most one reply (none only for an
\* engine result too long for a message).
C15_RepliesInRequestOrder ==
    /\ \A i \in Entries({"write"}, FirstID) :
           \A j \in Entries({"dispatch", "write"}, SecondID) : i < j
    /\ \A j \in Entries({"dispatch", "write"}, SecondID) :
           \E i \in Entries({"write", "noreply"}, FirstID) : i < j
    /\ Cardinality(Entries({"write"}, FirstID)) <= 1
    /\ Cardinality(Entries({"write"}, SecondID)) <= 1
    /\ (delivered = Len(stream) /\ sess[1].pc = "read") =>
           Cardinality(Entries({"write", "noreply"}, SecondID)) = 1

C15_Witness ==
    /\ stream = ReqDoWork \o ReqGetServerVersion
    /\ reads = 1
    /\ Len(Log(1)) = 5
    /\ Log(1)[2].ev = "engine"
    /\ Log(1)[3].ev = "write"
    /\ Log(1)[3].ReqID = 1
    /\ Log(1)[3].Command = IpcCmdResponse
    /\ Log(1)[4].ev = "dispatch"
    /\ Log(1)[4].ReqID = 7
    /\ Log(1)[5].ev = "write"

MetadataCommands == {IpcCmdGetServerVersion, IpcCmdGetPowType, IpcCmdGetPowVersion}

\* in this step session s dispatches a metadata request
DispatchesMetadata(s, i) ==
    /\ i > Len(sess[s].log)
    /\ i <= Len(sess'[s].log)
    /\ sess'[s].log[i].ev = "dispatch"
    /\ sess'[s].log[i].Command \in MetadataCommands

\* C16: the step in which a session dispatches a metadata request also
\* writes its Response, under the request's req_id, and leaves the session
\* at its next read; the step neither takes nor waits for the engine mutex
\* and starts no engine call, whoever holds the mutex or waits for it.
C16_MetadataWithoutMutex ==
    [][\A s \in Sessions : \A i \in 1..Len(sess'[s].log) :
          DispatchesMetadata(s, i) =>
              /\ i < Len(sess'[s].log)
              /\ sess'[s].log[i + 1].ev = "write"
              /\ sess'[s].log[i + 1].Command = IpcCmdResponse
              /\ sess'[s].log[i + 1].ReqID = sess'[s].log[i].ReqID
              /\ sess'[s].pc = "read"
              /\ powMutex' = powMutex
              /\ calls' = calls
              /\ inflight' = inflight]_vars

\* session s was answered a metadata request by the read that followed the
\* start of the engine call session t is still in
C16_Witness ==
    \E s, t \in Sessions :
        /\ s # t
        /\ powMutex = t
        /\ sess[t].pc = "engine"
        /\ sess[t].log[Len(sess[t].log)].ev = "engine"
        /\ sess[t].log[Len(sess[t].log)].reads = 1
        /\ reads = 2
        /\ Len(sess[s].log) = 2
        /\ sess[s].log[1].Command = IpcCmdGetServerVersion
        /\ sess[s].log[2].ev = "write"
        /\ sess[s].log[2].Command = IpcCmdResponse

\* C17 as claimed: with the read timeout configured as 0 a call never ends
\* with the error Receive timeout.
C17_NoTimeoutWhenDeadlineZero ==
    (cl.pc \in {"done", "idle"} /\ cl.ReadTimeOutMs = 0) => cl.err.fmt # "Receive timeout"

\* the frame receive returned to sendIpcFrameV1ToServer
ReplyFrame == BytesToIpcFrameV1(cl.frameData)

\* receive has returned a payload and the call has ended
Answered == cl.pc = "done" /\ cl.received

\* C18: a call that returns without error was answered by a reply whose
\* req_id is the one the client gave the request; a reply with another
\* req_id ends the call with the Wrong ReqID error and without data.
C18_ReplyCorrelation ==
    Answered =>
        /\ cl.err = NoError => (ReplyFrame.err = "" /\ ReplyFrame.ReqID = cl.reqID)
        /\ cl.sres.err = NoError => (ReplyFrame.err = "" /\ ReplyFrame.ReqID = cl.reqID)
        /\ (ReplyFrame.err = "" /\ ReplyFrame.ReqID # cl.reqID) =>
              /\ cl.err = Text("Wrong ReqID! ReqID: %X, Expected: %X",
                               <<ReplyFrame.ReqID, cl.reqID>>)
              /\ cl.sres.response = <<>>
              /\ cl.response = <<>>

C18_Witness ==
    /\ Answered
    /\ cl.reqID = 2
    /\ cl.err = NoError
    /\ cl.response = <<57, 65>>
    /\ ReplyFrame.ReqID = 2

\* C19 as claimed: for a reply with the request's req_id,
\* sendIpcFrameV1ToServer returns the reply's data, and no error, exactly
\* when the command is Response; for Error it returns the error whose
\* message is the reply's data; for any other command the Unknown command
\* error.
C19_CommandEvaluation ==
    (Answered /\ ReplyFrame.err = "" /\ ReplyFrame.ReqID = cl.reqID) =>
        /\ ReplyFrame.Command = IpcCmdResponse =>
              cl.sres = [response |-> ReplyFrame.Data, err |-> NoError]
        /\ ReplyFrame.Command = IpcCmdError =>
              cl.sres = [response |-> <<>>, err |-> Raw(ReplyFrame.Data)]
        /\ ReplyFrame.Command \notin {IpcCmdResponse, IpcCmdError} =>
              cl.sres = [response |-> <<>>,
                         err |-> Text("Unknown command! Cmd: %X", <<ReplyFrame.Command>>)]

\* the calls that own a req_id and have not returned
Overlapping == {c \in Callers : cl.caller[c].pc \in {"unlock", "call"}}

\* C20: every request adds exactly one, modulo 256, to the client's
\* RequestId and takes the new value as its req_id; no increment of
\* concurrent calls is lost, and the calls under way at the same time
\* (fewer than 256) have pairwise distinct req_ids.
C20_RequestIdIncrement ==
    /\ cl.RequestId = (cl.start + cl.incs) % 256
    /\ \A c \in Overlapping : cl.caller[c].reqID = (cl.caller[c].tmp + 1) % 256
    /\ \A c, d \in Overlapping : c # d => cl.caller[c].reqID # cl.caller[d].reqID

\* all callers are under way at once and the req_id has wrapped from 0xFF
\* to 0x00 between two of them
C20_Witness ==
    /\ cl.start = 254
    /\ \A c \in Callers : cl.caller[c].pc = "call"
    /\ \E c, d \in Callers : cl.caller[c].reqID = 255 /\ cl.caller[d].reqID = 0

\* the endpoint parses as a URL with a non-empty host
RemoteEndpoint(e) ==
    /\ ~ParseRequestURI(e).nil
    /\ Hostname(ParseRequestURI(e)) # <<>>

\* C21 as claimed: Initialize returns the remote adapter exactly when the
\* endpoint parses as a URL with a non-empty host, and for every other
\* endpoint, those that do not parse included, a client with the local IPC
\* implementation; it never crashes.
C21_InitializeClassifies ==
    cl.pc \in {"initialized", "panic"} =>
        /\ cl.pc = "initialized"
        /\ cl.PowClientImplementation =
              IF RemoteEndpoint(cl.DiverDriverPath) THEN "RemoteClient" ELSE "IpcClient"

\* the input of a dispatched DoWork: data[1..]
InputOf(e) == SubSeq(e.payload, 6, Len(e.payload))

IsInputError(e) ==
    /\ e.ev = "write"
    /\ e.Command = IpcCmdError
    /\ e.Data.fmt = "invalid trytes"

\* C22: a DoWork that passes the difficulty gate and whose input has a byte
\* outside the alphabet (A..Z and 9) is answered with an Error, under its
\* req_id, and does not reach the engine; every input the engine is invoked
\* with consists of alphabet bytes only.
C22_AlphabetCheck ==
    \A s \in Sessions : \A i \in 1..Len(Log(s)) :
        /\ (IsDoWork(Log(s)[i]) /\ MwmOf(Log(s)[i]) <= maxMwm
              /\ ~ValidTrytes(InputOf(Log(s)[i])))
               => /\ i < Len(Log(s))
                  /\ IsInputError(Log(s)[i + 1])
                  /\ Log(s)[i + 1].ReqID = Log(s)[i].ReqID
        /\ Log(s)[i].ev = "engine" => ValidTrytes(Log(s)[i].trytes)

\* a DoWork with the input "a" was refused and a DoWork with the input "A"
\* reached the engine
C22_Witness ==
    \E i, j \in 1..(Len(Log(1)) - 1) :
        /\ IsDoWork(Log(1)[i]) /\ InputOf(Log(1)[i]) = <<97>>
        /\ IsInputError(Log(1)[i + 1])
        /\ IsDoWork(Log(1)[j]) /\ InputOf(Log(1)[j]) = <<65>>
        /\ Log(1)[j + 1].ev = "engine" /\ Log(1)[j + 1].trytes = <<65>>

\* the commands the server serves
ServedCommands == MetadataCommands \cup {IpcCmdPowFunc}

\* the command byte of the frame on the stream
StreamCommand == StreamFrame[6]

\* C23: a well-framed request whose command is none of GetServerVersion,
\* GetPowType, GetPowVersion and PowFunc (so also Notification, Response and
\* Error) is answered with one Error reply, under its req_id and naming the
\* command, and never reaches the engine.
C23_UnknownCommand ==
    StreamCommand \notin ServedCommands =>
        /\ calls = 0
        /\ sess[1].pc = "read"
        /\ \A i \in 1..Len(Log(1)) : Log(1)[i].ev # "engine"
        /\ delivered = Len(stream) =>
              /\ Len(Log(1)) = 2
              /\ Log(1)[1].ev = "dispatch"
              /\ Log(1)[2] = [ev |-> "write", ok |-> TRUE, ReqID |-> StreamFrame[5],
                              Command |-> IpcCmdError,
                              Data |-> Text("Unknown command! Cmd: %X", <<StreamCommand>>)]
              /\ sess[1].frameState = FrameStateSearchEnq

\* a Notification that arrived in more than one read was answered
C23_Witness ==
    /\ StreamCommand = IpcCmdNotification
    /\ delivered = Len(stream)
    /\ reads >= 2
    /\ Len(Log(1)) = 2
    /\ Log(1)[2].Command = IpcCmdError

\* the frame on the stream differs from the frame that was built
Flipped == stream # cx.original

IsChecksumError(e) ==
    /\ e.ev = "write"
    /\ e.Command = IpcCmdError
    /\ e.Data.fmt = "Wrong Checksum! CRC: %X, Expected: %X"

\* C24 as claimed: a frame with any single bit of its serialized payload
\* flipped, once it has been read, has been answered with the checksum
\* mismatch error and with nothing else, and its command has not been
\* dispatched.
C24_BitFlipIsChecksumMismatch ==
    Flipped =>
        /\ \A i \in 1..Len(Log(1)) : Log(1)[i].ev \notin {"dispatch", "engine", "panic"}
        /\ calls = 0
        /\ delivered = Len(stream) =>
              /\ Len(Log(1)) = 1
              /\ IsChecksumError(Log(1)[1])

\* C25 as claimed: whatever pow.maxMinWeightMagnitude is configured to, the
\* engine is never invoked with a difficulty above 243.
C25_EngineDifficultyAtMost243 ==
    \A s \in Sessions : \A i \in 1..Len(Log(s)) :
        Log(s)[i].ev = "engine" => Log(s)[i].mwm <= MaxClientMwm

\* the call of the client has ended with the receive timeout
TimedOut ==
    /\ cl.pc \in {"done", "returned"}
    /\ cl.err = Text("Receive timeout", <<>>)

\* session 1 has left its read loop
SessionEnded == sess[1].pc = "closed"

\* C26: after a call of the client has ended with a receive timeout, the
\* client's end of the connection gets closed and the server session of that
\* connection ends, given that the engine call it may be in returns.
C26_TimeoutEndsSession == TimedOut ~> (conn[1] = "peerclosed" /\ SessionEnded)

\* the client timed out while the session was in the engine, and the session
\* has ended after the engine returned
C26_Witness ==
    /\ TimedOut
    /\ SessionEnded
    /\ \E i \in 1..Len(Log(1)) : Log(1)[i].ev = "engine"
    /\ WrittenReplies = {}

\* what a parser holds: phase, frame length, accumulated payload, and where
\* it is in the current read
ParserState(r) == <<r.frameState, r.frameLength, r.frameData, r.buf, r.bufferIdx>>

\* the server has handled the CRC byte (it then writes or dispatches), the
\* client has handled it (receive then returns)
ServerAtEnd == sess[1].log # <<>>
ClientAtEnd == cl.pc = "done"

\* the CRC byte the parsers were given matches the payload they accumulated
CrcMatches == cl.buf[cl.bufferIdx + 1] = Checksum(cl.frameData)

ServerAccepted == \E i \in 1..Len(sess[1].log) : sess[1].log[i].ev = "dispatch"
ClientAccepted == cl.received

\* C27 as claimed: given the same reads, the two parsers hold the same
\* phase, frame length and payload at every turn up to SearchCRC, they handle
\* the CRC byte at the same turn, and each accepts the frame exactly when
\* the CRC byte matches.
C27_SameParser ==
    /\ ServerAtEnd <=> ClientAtEnd
    /\ ~ClientAtEnd => ParserState(sess[1]) = ParserState(cl)
    /\ ClientAtEnd =>
          /\ sess[1].frameData = cl.frameData
          /\ sess[1].frameLength = cl.frameLength
          /\ ClientAccepted <=> CrcMatches
          /\ ServerAccepted <=> CrcMatches

\* a dispatched DoWork without data: the payload is the four header bytes
IsEmptyDoWork(e) == e.ev = "dispatch" /\ e.Command = IpcCmdPowFunc /\ Len(e.payload) = 4

\* C28 as claimed: a DoWork whose data field is empty is answered with an
\* Error reply; neither the handler nor the process crashes, and the engine
\* is not invoked for it.
C28_EmptyDoWorkAnswered ==
    \A s \in Sessions : \A i \in 1..Len(Log(s)) :
        IsEmptyDoWork(Log(s)[i]) =>
            /\ ~crashed
            /\ sess[s].pc # "panic"
            /\ i < Len(Log(s))
            /\ Log(s)[i + 1].ev = "write"
            /\ Log(s)[i + 1].Command = IpcCmdError
            /\ Log(s)[i + 1].ReqID = Log(s)[i].ReqID

\* the handler is inside powFunc or about to reply: it reads no input
Busy(s) == sess[s].pc \in ({"lock", "reply"} \cup InPowFunc)

\* C29 as claimed: every frame whose CRC byte the parser has consumed gets
\* exactly one reply, written before any further input byte is processed:
\* a dispatched frame is followed in the log by its reply, or by the engine
\* invocation and then its reply, and the handler never drops a reply or
\* panics.
C29_OneReplyPerFrame ==
    \A s \in Sessions : \A i \in 1..Len(Log(s)) :
        /\ Log(s)[i].ev \notin {"noreply", "panic"}
        /\ (Log(s)[i].ev = "dispatch" /\ i < Len(Log(s)))
              => Log(s)[i + 1].ev \in {"write", "engine"}
        /\ (Log(s)[i].ev = "engine" /\ i < Len(Log(s))) => Log(s)[i + 1].ev = "write"
        /\ (Log(s)[i].ev \in {"dispatch", "engine"} /\ i = Len(Log(s))) => Busy(s)
        /\ (Log(s)[i].ev = "write" /\ i > 1 /\ Log(s)[i - 1].ev = "write")
              => Log(s)[i].Data.fmt \in {"EOF", "unexpected EOF",
                                         "Wrong Checksum! CRC: %X, Expected: %X"}

\* session s holds the engine mutex
HoldsMutex(s) == powMutex = s

\* a step in which session s does socket I/O: its c.Read returns, or it
\* writes a reply
SocketIO(s) ==
    \/ sess[s].pc = "read" /\ sess'[s] # sess[s]
    \/ \E i \in (Len(sess[s].log) + 1)..Len(sess'[s].log) : sess'[s].log[i].ev = "write"

\* C30: a session holds the engine mutex only inside powFunc, for a request
\* that has been read in full and has passed the difficulty gate and the
\* alphabet check, and no step in which it reads from or writes to its
\* socket starts or ends with the mutex in its hands.
C30_NoSocketIOUnderMutex ==
    /\ [](\A s \in Sessions :
            HoldsMutex(s) =>
                /\ sess[s].pc \in InPowFunc
                /\ sess[s].mwm <= maxMwm
                /\ ValidTrytes(sess[s].trytes)
                /\ sess[s].frameState = FrameStateSearchCRC
                /\ Log(s)[Len(Log(s))].ev \in {"dispatch", "engine"})
    /\ [][\A s \in Sessions : SocketIO(s) => (~HoldsMutex(s) /\ ~HoldsMutex(s)')]_vars

\* session 1 has written the reply to its DoWork while session 2 holds the
\* mutex
C30_Witness ==
    /\ HoldsMutex(2)
    /\ Len(Log(1)) >= 3
    /\ Log(1)[Len(Log(1)) - 1].ev = "engine"
    /\ Log(1)[Len(Log(1))].ev = "write"
    /\ Log(1)[Len(Log(1))].Command = IpcCmdResponse

\* the dispatched DoWork requests of session s that pass the difficulty gate
\* and the alphabet check
Passing(s) ==
    {i \in 1..Len(Log(s)) :
        /\ IsDoWork(Log(s)[i])
        /\ MwmOf(Log(s)[i]) <= maxMwm
        /\ ValidTrytes(InputOf(Log(s)[i]))}

\* the engine invocations of session s
Invocations(s) == {i \in 1..Len(Log(s)) : Log(s)[i].ev = "engine"}

\* session s is in powFunc and has not yet come to the engine call
BeforeEngine(s) == sess[s].pc \in {"lock", "locked"}

\* C31: with the engine installed, every DoWork that passes the gate and
\* the alphabet check is followed by one engine invocation, with its
\* difficulty and input, and by no second one, also when the engine fails;
\* the engine counter equals the number of these requests that have come to
\* the engine call, and a refused DoWork leaves it as it is.  (Without an
\* engine powFunc invokes nothing.)
C31_OneInvocationPerRequest ==
    /\ calls = Cardinality(UNION {{<<s, i>> : i \in Invocations(s)} : s \in Sessions})
    /\ ~powFuncPtr => calls = 0
    /\ \A s \in Sessions :
          /\ \A i \in Invocations(s) :
                /\ i - 1 \in Passing(s)
                /\ Log(s)[i].mwm = MwmOf(Log(s)[i - 1])
                /\ Log(s)[i].trytes = InputOf(Log(s)[i - 1])
          /\ powFuncPtr =>
                \A i \in Passing(s) :
                    \/ i + 1 \in Invocations(s)
                    \/ i = Len(Log(s)) /\ BeforeEngine(s)

\* the engine failed for one DoWork and was not invoked again, and a DoWork
\* with a bad input was refused: one invocation in all
C31_Witness ==
    /\ calls = 1
    /\ \E i \in Invocations(1) :
          /\ i < Len(Log(1))
          /\ Log(1)[i + 1].ev = "write"
          /\ Log(1)[i + 1].Data = Text("pow failed", <<>>)
    /\ \E j \in 1..Len(Log(1)) : IsInputError(Log(1)[j])


\* the stream is two complete valid frames back to back
TwoValidFrames ==
    \E f \in FirstFrames \ {FrameBadCrc}, g \in SecondFrames : stream = f \o g

FirstPayload == SubSeq(stream, 5, FirstLen - 1)
SecondPayload == SubSeq(stream, FirstLen + 5, Len(stream) - 1)

\* the positions of session 1's log that hold events of this kind
Positions(kind) == {i \in 1..Len(Log(1)) : Log(1)[i].ev = kind}

\* C32 as claimed: when the reads of a session have delivered two complete
\* valid frames back to back (in one read, or the tail of the first together
\* with the second), the handler has handled both before it reads again: each
\* payload is dispatched once, byte for byte, and the two frames have yielded
\* two replies, in the order of the frames.
C32_EveryFrameOfThePassAnswered ==
    (TwoValidFrames /\ delivered = Len(stream) /\ ~Busy(1)) =>
        /\ sess[1].pc = "read"
        /\ sess[1].frameState = FrameStateSearchEnq
        /\ Cardinality(Positions("dispatch")) = 2
        /\ \E i, j \in Positions("dispatch") :
              /\ i < j
              /\ Log(1)[i].payload = FirstPayload
              /\ Log(1)[j].payload = SecondPayload
        /\ Cardinality(Positions("write")) = 2
        /\ \E i, j \in Positions("write") :
              /\ i < j
              /\ Log(1)[i].ReqID = FirstID
              /\ Log(1)[j].ReqID = SecondID


\* C33: after a start byte and a byte that is not the version, the parser is
\* back in SearchEnq with nothing dispatched or written, the rejected byte
\* being consumed (also when it is 0x05); the valid frame that follows is
\* dispatched once with its own payload, as the first event of the session,
\* and is served as it is without the two bytes.
C33_BogusStartDiscarded ==
    /\ delivered = 2 =>
           /\ sess[1].frameState = FrameStateSearchEnq
           /\ Log(1) = <<>>
    /\ Cardinality(Positions("dispatch")) <= 1
    /\ Log(1) # <<>> =>
           /\ Log(1)[1].ev = "dispatch"
           /\ Log(1)[1].payload = StreamPayload
    /\ (delivered = Len(stream) /\ ~Busy(1)) =>
           /\ sess[1].pc = "read"
           /\ sess[1].frameState = FrameStateSearchEnq
           /\ Len(Log(1)) \in {2, 3}
           /\ Log(1)[2].ev \in {"engine", "write"}
           /\ Log(1)[2].ev = "engine" => StreamCommand = IpcCmdPowFunc
           /\ \A i \in Positions("write") : Log(1)[i].ReqID = StreamFrame[5]

C33_Witness ==
    /\ stream = <<5, 2>> \o ReqGetServerVersion
    /\ delivered = Len(stream)
    /\ reads = 1
    /\ Len(Log(1)) = 2
    /\ Log(1)[1].payload = StreamPayload
    /\ Log(1)[2].ev = "write"
    /\ Log(1)[2].Command = IpcCmdResponse
    /\ Log(1)[2].Data = Raw(DiverDriverVersion)


\* the number of bytes of the stream a parser has taken so far
Taken(r) ==
    LET t == (delivered - Len(r.buf)) + r.bufferIdx + 1
    IN  IF t > delivered THEN delivered ELSE t

\* the payload a parser holds is, byte for byte, what the stream holds after
\* the header 05 01 and the two length bytes, up to the last byte taken
\* (less the CRC byte, once that is taken)
PayloadVerbatim(r, crcTaken) ==
    LET n == Len(r.frameData)
        t == IF crcTaken THEN Taken(r) - 1 ELSE Taken(r)
    IN  /\ n <= r.frameLength
        /\ t - n >= 4
        /\ SubSeq(stream, t - n - 3, t - n) =
               <<StartByte, FrameVersion, r.frameLength \div 256, r.frameLength % 256>>
        /\ r.frameData = SubSeq(stream, t - n + 1, t)
        /\ (r.frameState = FrameStateSearchCRC \/ crcTaken) => n = r.frameLength
        /\ (r.frameState = FrameStateSearchData /\ r.frameLength > 0) => n < r.frameLength

\* a step of a parser that is in SearchData leaves it in SearchData or takes
\* it to SearchCRC, with the same frame length and a payload that only grew
StaysInFrame(r, rNext) ==
    r.frameState = FrameStateSearchData =>
        /\ rNext.frameState \in {FrameStateSearchData, FrameStateSearchCRC}
        /\ rNext.frameLength = r.frameLength
        /\ Len(rNext.frameData) >= Len(r.frameData)
        /\ SubSeq(rNext.frameData, 1, Len(r.frameData)) = r.frameData

PayloadsVerbatim ==
    /\ (~ServerAtEnd /\ sess[1].frameState \in {FrameStateSearchData, FrameStateSearchCRC})
          => PayloadVerbatim(sess[1], FALSE)
    /\ (~ClientAtEnd /\ cl.frameState \in {FrameStateSearchData, FrameStateSearchCRC})
          => PayloadVerbatim(cl, FALSE)
    /\ ServerAtEnd =>
          /\ PayloadVerbatim(sess[1], TRUE)
          /\ ServerAccepted => stream[Taken(sess[1])] = Checksum(sess[1].frameData)
    /\ ClientAtEnd =>
          /\ PayloadVerbatim(cl, TRUE)
          /\ ClientAccepted <=> stream[Taken(cl)] = Checksum(cl.frameData)

\* C34: from SearchData on, the payload of either parser is the bytes of
\* the stream that follow the length field, whatever their values (0x05 and
\* 0x01 included): frame search is not restarted, SearchCRC is entered with
\* exactly frame_length bytes, and the byte after them is the one compared
\* with the checksum.
C34_SearchDataTakesPayloadVerbatim ==
    /\ []PayloadsVerbatim
    /\ [][StaysInFrame(sess[1], sess'[1]) /\ StaysInFrame(cl, cl')]_vars

C34_Witness ==
    /\ stream = ReqDoWork1
    /\ reads = 3
    /\ ServerAccepted
    /\ ClientAccepted
    /\ sess[1].frameData = <<5, 7, 0, 2, 1, 65>>
    /\ cl.frameData = sess[1].frameData
    /\ Taken(sess[1]) = Len(stream)


\* what C35 says of the parser state r
ParserInvariant(r) ==
    /\ r.frameState \in {FrameStateSearchData, FrameStateSearchCRC} =>
           /\ r.frameLength \in 0..MaxMessageData
           /\ Len(r.frameData) <= r.frameLength
    /\ r.frameState = FrameStateSearchCRC => Len(r.frameData) = r.frameLength
    /\ r.frameState = FrameStateSearchVersion =>
           /\ r.frameLength = -1
           /\ r.frameData = <<>>
    /\ r.frameState = FrameStateSearchLength =>
           /\ r.frameData = <<>>
           /\ r.frameLength = -1 \/ \E b \in Byte : r.frameLength = b * 256

\* C35: in every reachable state of the server's parser and of the client's,
\* the payload is no longer than frame_length in SearchData and SearchCRC,
\* frame_length is in 0..65535 there and equals the payload length in
\* SearchCRC, and after a 0x05 seen in SearchEnq frame_length is the
\* sentinel -1 and the payload is empty until the length bytes are read.
C35_ParserInvariants ==
    /\ ParserInvariant(sess[1])
    /\ cl # NoClient => ParserInvariant(cl)

\* the start byte of a second frame has been taken after a first frame with
\* a payload of six bytes
C35_Witness ==
    /\ stream = ReqDoWork \o ReqGetServerVersion
    /\ delivered = FirstLen + 1
    /\ Dispatched(1, FirstPayload) = 1
    /\ Len(FirstPayload) = 6
    /\ sess[1].pc = "read"
    /\ sess[1].frameState = FrameStateSearchVersion
    /\ sess[1].frameLength = -1
    /\ sess[1].frameData = <<>>


\* the call is inside sendToServer
InCall == cl.pc \in {"dial", "write", "recv"}

\* what the peer sent is a complete frame
FullReply ==
    /\ Len(cl.wire) >= 5
    /\ Len(cl.wire) = 5 + (cl.wire[3] * 256) + cl.wire[4]

ReceiveTimeout == Text("Receive timeout", <<>>)

\* C36: with a read timeout that is not 0, a call that has entered
\* sendToServer returns: when the peer sends nothing or less than a frame,
\* closing the connection or not, receive ends with the receive-timeout
\* error; and whenever a call has returned, its connection is closed.
C36_CallReturns ==
    /\ (InCall /\ cl.ReadTimeOutMs # 0) ~> (cl.pc = "done")
    /\ [](cl.pc = "done" => ~cl.open)
    /\ []((cl.pc = "done" /\ cl.sent # <<>> /\ ~FullReply) => cl.err = ReceiveTimeout)

C36_Witness ==
    /\ cl.pc = "done"
    /\ cl.ReadTimeOutMs = 2
    /\ cl.dialed
    /\ cl.sent # <<>>
    /\ Len(cl.wire) = 3
    /\ cl.got = 3
    /\ cl.peerClosed
    /\ cl.now > cl.ts + cl.ReadTimeOutMs
    /\ cl.err = ReceiveTimeout
    /\ ~cl.open

====
